---- MODULE Spec2Model ----
(***************************************************************************)
(* Model of pricejiang/plane: the widget storage manager                   *)
(* (src/lib/widgetStorage.ts), the extraction pipeline                     *)
(* (src/unnamed/part_004) and the extraction worker manager                *)
(* (src/unnamed/part_006).                                                 *)
(***************************************************************************)
EXTENDS Integers, Sequences, FiniteSets, TLC

VARIABLES
    \* ---- widget storage (src/lib/widgetStorage.ts) ----
    heap,               \* JS objects holding WidgetMetadata, addressed by reference
    cfgHeap,            \* JS objects holding a metadata's config, addressed by reference
    widgets,            \* this.widgets: elementId -> reference into heap
    snapshots,          \* this.snapshots
    currentSnapshotId,  \* this.currentSnapshotId
    now,                \* Date.now()
    lastOp,             \* the last storage call and what it returned
    savedState,         \* history: snapshot id -> the values get() returned when it was saved
    dupWatch,           \* history: the last duplicate(a, b) and the value of a after it
    doc,                \* the string serialize() returned last, as the document it encodes
    docState,           \* history: the values get() returned when doc was serialized
    \* ---- EnhancedExtractionManager.extractWithGPTEnhancement ----
    localComponents,    \* localResult.components
    gptOptions,         \* this.gptOptions
    enhPhase,           \* position in extractWithGPTEnhancement / enhanceWithGPT
    batches,            \* enhanceWithGPT: batches
    batchIndex,         \* enhanceWithGPT: i + 1
    enhancedComponents, \* enhanceWithGPT: enhancedComponents
    failedIds,          \* history: ids of the components whose enhancement failed
    enhResult,          \* the EnhancedExtractionResult returned
    \* ---- extraction worker, analyzeRelationships ----
    groupedComponents,  \* the components groupIntoComponents returned
    componentsWithRelations, \* what analyzeRelationships returned
    relPhase,           \* "idle" | "grouped" | "related"
    \* ---- detectWidgetFromText (pipeline and factory) ----
    detectText,         \* the text passed to the detector
    detector,           \* "none" | "pipeline" | "factory": which detector ran
    detectionResult,    \* the WidgetDetectionResult returned
    \* ---- token analysis ----
    analysisElements,   \* the raw elements passed to the estimator
    analysisComponents, \* the semantic components passed to the estimator
    estimator,          \* "none" or the estimator that ran
    tokenAnalysis,      \* its raw and compact estimates and the percentage reported
    \* ---- calculateBoundingBox on a rotated element ----
    boxElement,         \* the element passed to calculateBoundingBox
    boundingBox,        \* the box it returned, NoBox before the call
    \* ---- extraction worker, extractSemanticComponents ----
    extElements,        \* the elements of the request
    extOptions,         \* the options of the request
    extPhase,           \* "idle" | "request" | "classified" | "grouped" | "related" | "done"
    classifiedElements, \* what classifyElements returned
    extComponents,      \* the components, as grouped and then with relationships
    filteredComponents, \* the components of the result
    \* ---- widget test loop: createFromPattern, then storage.set ----
    testWidgets,        \* the texts of the test widgets
    testIndex,          \* the widgets the loop has handled
    createPhase,        \* "idle" | "create" | "store": the call the loop makes next
    createdMetadata,    \* what createFromPattern returned last
    \* ---- extraction pipeline (src/unnamed/part_004) ----
    elements,           \* request.elements
    options,            \* request.options
    stage,              \* the stage of runExtractionPipeline that ran last
    normalizedGroups,   \* result of normalizeElements
    hierarchy,          \* result of detectContainers
    textAttachments,    \* result of attachText
    connectors,         \* result of analyzeConnectors
    roleAssignments,    \* result of assignRoles
    widgetDetections,   \* result of detectWidgets
    components,         \* result.components
    \* ---- extraction worker manager (src/unnamed/part_006) ----
    worker,             \* this.worker: "running" or "null"
    respawnTimer,       \* the setTimeout(() => this.initWorker(), 1000) of handleWorkerError is armed
    messageId,          \* this.messageId
    pendingRequests,    \* this.pendingRequests: message id -> the time its timeout is due
    promises,           \* the promise extractComponents returned, per message id
    inbox,              \* messages posted to the worker and not handled yet
    outbox,             \* responses posted by the worker and not delivered yet
    warned,             \* ids of the 'unknown request ID' warnings
    clock               \* wall-clock time in ms

storeVars == <<heap, cfgHeap, widgets, snapshots, currentSnapshotId, now, lastOp, savedState, dupWatch>>

pipeVars == <<elements, options, stage, normalizedGroups, hierarchy, textAttachments,
              connectors, roleAssignments, widgetDetections, components>>

workerVars == <<worker, respawnTimer, messageId, pendingRequests, promises, inbox, outbox,
                warned, clock>>

docVars == <<doc, docState>>

enhVars == <<localComponents, gptOptions, enhPhase, batches, batchIndex,
             enhancedComponents, failedIds, enhResult>>

relVars == <<groupedComponents, componentsWithRelations, relPhase>>

detVars == <<detectText, detector, detectionResult>>

tokVars == <<analysisElements, analysisComponents, estimator, tokenAnalysis>>

boxVars == <<boxElement, boundingBox>>

extVars == <<extElements, extOptions, extPhase, classifiedElements, extComponents, filteredComponents>>

createVars == <<testWidgets, testIndex, createPhase, createdMetadata>>

vars == <<storeVars, docVars, pipeVars, workerVars, enhVars, relVars, detVars, tokVars, boxVars, extVars, createVars>>

(***************************************************************************)
(* Bounds                                                                  *)
(***************************************************************************)
MaxSaves == 3           \* calls of saveSnapshot in one run
MaxObjects == 4         \* metadata objects allocated in one run
MaxNow == 2             \* clock readings

(***************************************************************************)
(* WIDGET STORAGE                                                          *)
(***************************************************************************)
Keys == {"a", "b"}
Titles == {"T1", "T2"}
WidgetType == {"map", "video", "iframe", "chart", "calendar"}

maxSnapshotHistory == 50

NoKey == "none"

\* Config literals a caller writes: [center, zoom, url, data]
\* center: both coordinates present and non-zero; url: "" | "bad" | "https://v";
\* data (chart data, of type any): "none" | "NaN" | "null"
CfgChart == [center |-> FALSE, zoom |-> 0, url |-> "", data |-> "none"]
CfgMap == [center |-> TRUE, zoom |-> 10, url |-> "", data |-> "none"]
CfgMapZoom0 == [center |-> TRUE, zoom |-> 0, url |-> "", data |-> "none"]
CfgChartNaN == [center |-> FALSE, zoom |-> 0, url |-> "", data |-> "NaN"]

\* new URL(s) succeeds
IsValidUrl(u) == u = "https://v"

\* Metadata literals a caller passes to set(): config is given by value here
\* and allocated as one fresh config object by the call.
Literal(type, eid, title, created, cfg) ==
    [type |-> type, elementId |-> eid, title |-> title, createdAt |-> created,
     version |-> "1.0.0", config |-> cfg]

MetadataLiterals ==
    {Literal("chart", "a", "T1", 1, CfgChart),
     Literal("map", "b", "T2", 1, CfgMap),
     Literal("map", "a", "T1", 1, CfgMapZoom0),
     Literal("chart", "", "T1", 1, CfgChart)}

\* validateMetadata / validateMapMetadata / validateVideoMetadata: TRUE when
\* nothing is thrown.  md carries its config by value.
validateMetadata(md) ==
    /\ md.elementId # ""
    /\ md.type \in WidgetType
    /\ md.createdAt > 0
    /\ md.version # ""
    /\ (md.type = "map") => (md.config.center /\ md.config.zoom >= 1 /\ md.config.zoom <= 20)
    /\ (md.type = "video") => (md.config.url # "" /\ IsValidUrl(md.config.url))

\* The value a caller reads through a reference: the object with its config
DeepValue(h, c, ref) == [h[ref] EXCEPT !.config = c[h[ref].config]]

DeepMap(h, c, m) == [k \in DOMAIN m |-> DeepValue(h, c, m[k])]

MapSet(m, k, v) == [x \in (DOMAIN m) \cup {k} |-> IF x = k THEN v ELSE m[x]]

MapDelete(m, k) == [x \in (DOMAIN m) \ {k} |-> m[x]]

EmptyMap == [x \in {} |-> 0]

\* saveSnapshot: the history after pushing a snapshot of map m
\* (data: new Map(this.widgets) copies the references, not the objects)
PushSnapshot(snaps, id, t, m, operation, elementId) ==
    LET pushed == Append(snaps, [id |-> <<id, t>>, timestamp |-> t, data |-> m,
                                 operation |-> operation, elementId |-> elementId])
    IN IF Len(pushed) > maxSnapshotHistory THEN Tail(pushed) ELSE pushed

\* saveSnapshot as called by every operation: the effect on snapshots,
\* currentSnapshotId and the history variable, for the widget map m and the
\* heaps h, c as they are at the call
SaveSnapshotEffect(h, c, m, operation, elementId) ==
    /\ currentSnapshotId < MaxSaves
    /\ currentSnapshotId' = currentSnapshotId + 1
    /\ snapshots' = PushSnapshot(snapshots, currentSnapshotId + 1, now, m, operation, elementId)
    /\ savedState' = MapSet(savedState, <<currentSnapshotId + 1, now>>, DeepMap(h, c, m))

NoWatch == [src |-> NoKey, dst |-> NoKey, value |-> NoKey]

\* The history of the last duplicate survives the calls that write dst only
KeepWatch(k) == dupWatch' = IF dupWatch.dst = k THEN dupWatch ELSE NoWatch

\* No extraction request
PipeIdle ==
    /\ elements = <<>>
    /\ options = [minConfidence |-> 30, enableWidgetDetection |-> TRUE]
    /\ stage = "idle"
    /\ normalizedGroups = <<>>
    /\ hierarchy = <<>>
    /\ textAttachments = <<>>
    /\ connectors = <<>>
    /\ roleAssignments = <<>>
    /\ widgetDetections = <<>>
    /\ components = <<>>

EmptyFcn == <<>>

\* The manager after construction, with no request submitted
WorkerIdle ==
    /\ worker = "running"
    /\ respawnTimer = FALSE
    /\ messageId = 0
    /\ pendingRequests = EmptyFcn
    /\ promises = EmptyFcn
    /\ inbox = {}
    /\ outbox = {}
    /\ warned = {}
    /\ clock = 0

\* No enhanced extraction is running
NoResult == [localComponents |-> <<>>, enhancedComponents |-> <<>>]

EnhIdle ==
    /\ localComponents = <<>>
    /\ gptOptions = [maxComponentsPerBatch |-> 0, enableRelationshipDetection |-> FALSE]
    /\ enhPhase = "idle"
    /\ batches = <<>>
    /\ batchIndex = 0
    /\ enhancedComponents = <<>>
    /\ failedIds = {}
    /\ enhResult = NoResult

NoDetection == [isWidget |-> FALSE, type |-> "none", confidence |-> 0,
                detectionMethod |-> "none"]

\* A percentage as a fraction num / den, den > 0
ZeroPercent == [num |-> 0, den |-> 1]

NoAnalysis == [raw |-> 0, compact |-> 0, percentage |-> ZeroPercent]

\* No token estimator has been called
TokIdle ==
    /\ analysisElements = <<>>
    /\ analysisComponents = <<>>
    /\ estimator = "none"
    /\ tokenAnalysis = NoAnalysis

NoBox == [x |-> 0, y |-> 0, width |-> 0, height |-> 0, area |-> 0, scale |-> 0]

NoBoxElement == [x |-> 0, y |-> 0, width |-> 0, height |-> 0, angle |-> [cos |-> 0, sin |-> 0, den |-> 0]]

\* calculateBoundingBox has not been called
BoxIdle == boxElement = NoBoxElement /\ boundingBox = NoBox

\* extractSemanticComponents is not running
ExtIdle ==
    /\ extElements = <<>>
    /\ extOptions = [minConfidence |-> 0]
    /\ extPhase = "idle"
    /\ classifiedElements = <<>>
    /\ extComponents = <<>>
    /\ filteredComponents = <<>>

\* No widget test is running
CreateIdle ==
    /\ testWidgets = <<>>
    /\ testIndex = 0
    /\ createPhase = "idle"
    /\ createdMetadata = [type |-> "null"]

\* No detector has been called
DetIdle == detectText = <<>> /\ detector = "none" /\ detectionResult = NoDetection

\* No relationship analysis is running
RelIdle == groupedComponents = <<>> /\ componentsWithRelations = <<>> /\ relPhase = "idle"

\* No string has been serialized
NoDoc == [version |-> "", widgets |-> <<>>, snapshots |-> <<>>]

DocIdle == doc = NoDoc /\ docState = <<>>

StoreInit ==
    /\ heap = <<>>
    /\ cfgHeap = <<>>
    /\ widgets = EmptyMap
    /\ snapshots = <<>>
    /\ currentSnapshotId = 0
    /\ now = 1
    /\ lastOp = [op |-> "new", key |-> NoKey, ret |-> "ok"]
    /\ savedState = EmptyMap
    /\ dupWatch = NoWatch

\* Time passes between calls
Tick ==
    /\ now < MaxNow
    /\ now' = now + 1
    /\ UNCHANGED <<heap, cfgHeap, widgets, snapshots, currentSnapshotId, lastOp, savedState>>

\* set(elementId, metadata) with a metadata object literal
SetLiteral(k, lit) ==
    IF ~validateMetadata(lit)
    THEN /\ lastOp' = [op |-> "set", key |-> NoKey, ret |-> "throws"]
         /\ UNCHANGED <<heap, cfgHeap, widgets, snapshots, currentSnapshotId, now, savedState>>
    ELSE /\ Len(heap) < MaxObjects
         /\ LET cref == Len(cfgHeap) + 1
                obj == [type |-> lit.type, elementId |-> k, title |-> lit.title,
                        createdAt |-> lit.createdAt, updatedAt |-> now,
                        version |-> lit.version, config |-> cref]
            IN /\ cfgHeap' = Append(cfgHeap, lit.config)
               /\ heap' = Append(heap, obj)
               /\ SaveSnapshotEffect(heap, cfgHeap, widgets, "update", k)
               /\ widgets' = MapSet(widgets, k, Len(heap) + 1)
         /\ lastOp' = [op |-> "set", key |-> NoKey, ret |-> "ok"]
         /\ UNCHANGED now

\* set(elementId, metadata) where metadata is the object get(src) returned:
\* the call writes elementId and updatedAt into that object, then stores a
\* shallow copy of it
SetFromGet(k, src) ==
    /\ src \in DOMAIN widgets
    /\ LET ref == widgets[src]
           md == DeepValue(heap, cfgHeap, ref)
       IN IF ~validateMetadata(md)
          THEN /\ lastOp' = [op |-> "set", key |-> NoKey, ret |-> "throws"]
               /\ UNCHANGED <<heap, cfgHeap, widgets, snapshots, currentSnapshotId, now, savedState>>
          ELSE /\ Len(heap) < MaxObjects
               /\ LET mutated == [heap EXCEPT ![ref].elementId = k, ![ref].updatedAt = now]
                  IN /\ heap' = Append(mutated, mutated[ref])
                     /\ SaveSnapshotEffect(mutated, cfgHeap, widgets, "update", k)
                     /\ widgets' = MapSet(widgets, k, Len(heap) + 1)
               /\ lastOp' = [op |-> "set", key |-> NoKey, ret |-> "ok"]
               /\ UNCHANGED <<cfgHeap, now>>

\* delete(elementId)
Delete(k) ==
    IF k \notin DOMAIN widgets
    THEN /\ lastOp' = [op |-> "delete", key |-> NoKey, ret |-> "false"]
         /\ UNCHANGED <<heap, cfgHeap, widgets, snapshots, currentSnapshotId, now, savedState>>
    ELSE /\ SaveSnapshotEffect(heap, cfgHeap, widgets, "delete", k)
         /\ widgets' = MapDelete(widgets, k)
         /\ lastOp' = [op |-> "delete", key |-> NoKey, ret |-> "true"]
         /\ UNCHANGED <<heap, cfgHeap, now>>

\* clear()
Clear ==
    /\ SaveSnapshotEffect(heap, cfgHeap, widgets, "clear", NoKey)
    /\ widgets' = EmptyMap
    /\ lastOp' = [op |-> "clear", key |-> NoKey, ret |-> "ok"]
    /\ UNCHANGED <<heap, cfgHeap, now>>

\* duplicate(sourceId, targetId): { ...sourceMetadata, elementId, createdAt, updatedAt }
Duplicate(src, dst) ==
    IF src \notin DOMAIN widgets
    THEN /\ lastOp' = [op |-> "duplicate", key |-> NoKey, ret |-> "false"]
         /\ UNCHANGED <<heap, cfgHeap, widgets, snapshots, currentSnapshotId, now, savedState>>
    ELSE /\ Len(heap) < MaxObjects
         /\ heap' = Append(heap, [heap[widgets[src]] EXCEPT
                                    !.elementId = dst, !.createdAt = now, !.updatedAt = now])
         /\ SaveSnapshotEffect(heap, cfgHeap, widgets, "duplicate", dst)
         /\ widgets' = MapSet(widgets, dst, Len(heap) + 1)
         /\ lastOp' = [op |-> "duplicate", key |-> NoKey, ret |-> "true"]
         /\ UNCHANGED <<cfgHeap, now>>

\* update(elementId, { title }): { ...existing, ...updates, elementId, updatedAt }
UpdateTitle(k, t) ==
    IF k \notin DOMAIN widgets
    THEN /\ lastOp' = [op |-> "update", key |-> NoKey, ret |-> "false"]
         /\ UNCHANGED <<heap, cfgHeap, widgets, snapshots, currentSnapshotId, now, savedState>>
    ELSE LET updated == [heap[widgets[k]] EXCEPT !.title = t, !.elementId = k, !.updatedAt = now]
         IN IF ~validateMetadata([updated EXCEPT !.config = cfgHeap[updated.config]])
            THEN /\ lastOp' = [op |-> "update", key |-> NoKey, ret |-> "false"]
                 /\ UNCHANGED <<heap, cfgHeap, widgets, snapshots, currentSnapshotId, now, savedState>>
            ELSE /\ Len(heap) < MaxObjects
                 /\ heap' = Append(heap, updated)
                 /\ SaveSnapshotEffect(heap, cfgHeap, widgets, "update", k)
                 /\ widgets' = MapSet(widgets, k, Len(heap) + 1)
                 /\ lastOp' = [op |-> "update", key |-> NoKey, ret |-> "true"]
                 /\ UNCHANGED <<cfgHeap, now>>

\* update(elementId, { config: {...} }) with a config object literal
UpdateConfig(k, cfg) ==
    IF k \notin DOMAIN widgets
    THEN /\ lastOp' = [op |-> "update", key |-> NoKey, ret |-> "false"]
         /\ UNCHANGED <<heap, cfgHeap, widgets, snapshots, currentSnapshotId, now, savedState>>
    ELSE LET cref == Len(cfgHeap) + 1
             updated == [heap[widgets[k]] EXCEPT !.config = cref, !.elementId = k, !.updatedAt = now]
         IN IF ~validateMetadata([updated EXCEPT !.config = cfg])
            THEN /\ lastOp' = [op |-> "update", key |-> NoKey, ret |-> "false"]
                 /\ UNCHANGED <<heap, cfgHeap, widgets, snapshots, currentSnapshotId, now, savedState>>
            ELSE /\ Len(heap) < MaxObjects
                 /\ cfgHeap' = Append(cfgHeap, cfg)
                 /\ heap' = Append(heap, updated)
                 /\ SaveSnapshotEffect(heap, cfgHeap, widgets, "update", k)
                 /\ widgets' = MapSet(widgets, k, Len(heap) + 1)
                 /\ lastOp' = [op |-> "update", key |-> NoKey, ret |-> "true"]
                 /\ UNCHANGED now

\* saveSnapshot() called by the user of the storage
SaveSnapshot ==
    /\ SaveSnapshotEffect(heap, cfgHeap, widgets, "update", NoKey)
    /\ lastOp' = [op |-> "saveSnapshot", key |-> <<currentSnapshotId + 1, now>>, ret |-> "ok"]
    /\ UNCHANGED <<heap, cfgHeap, widgets, now>>

\* The copies restoreSnapshot makes of the objects of a snapshot, appended to
\* the heap in the order of the keys
KeyRank == [k \in Keys |-> IF k = "a" THEN 1 ELSE 2]

FirstKey(ks) == CHOOSE x \in ks : \A y \in ks : KeyRank[x] <= KeyRank[y]

RECURSIVE CopyAll(_, _, _)
CopyAll(h, data, ks) ==
    IF ks = {} THEN h
    ELSE LET k == FirstKey(ks)
         IN CopyAll(Append(h, h[data[k]]), data, ks \ {k})

RECURSIVE RefsOfCopies(_, _, _)
RefsOfCopies(n, data, ks) ==
    IF ks = {} THEN EmptyMap
    ELSE LET k == FirstKey(ks)
         IN MapSet(RefsOfCopies(n + 1, data, ks \ {k}), k, n + 1)

\* JSON.stringify(new Map(...)) is '{}': what a snapshot's data is after a
\* round trip through serialize and JSON.parse
JsonObject == [json |-> "{}"]

\* restoreSnapshot(snapshotId)
RestoreSnapshot(sid) ==
    IF ~\E i \in 1..Len(snapshots) : snapshots[i].id = sid
    THEN /\ lastOp' = [op |-> "restoreSnapshot", key |-> sid, ret |-> "false"]
         /\ UNCHANGED <<heap, cfgHeap, widgets, snapshots, currentSnapshotId, now, savedState>>
    ELSE LET i == CHOOSE j \in 1..Len(snapshots) :
                    /\ snapshots[j].id = sid
                    /\ \A l \in 1..(j - 1) : snapshots[l].id # sid
             data == snapshots[i].data
         IN IF data = JsonObject
            THEN \* this.widgets.clear() has run when data.forEach throws
                 /\ widgets' = EmptyMap
                 /\ lastOp' = [op |-> "restoreSnapshot", key |-> sid, ret |-> "false"]
                 /\ UNCHANGED <<heap, cfgHeap, snapshots, currentSnapshotId, now, savedState>>
            ELSE /\ Len(heap) + Cardinality(DOMAIN data) <= MaxObjects
                 /\ heap' = CopyAll(heap, data, DOMAIN data)
                 /\ widgets' = RefsOfCopies(Len(heap), data, DOMAIN data)
                 /\ lastOp' = [op |-> "restoreSnapshot", key |-> sid, ret |-> "true"]
                 /\ UNCHANGED <<cfgHeap, snapshots, currentSnapshotId, now, savedState>>

\* Ids a caller can pass to restoreSnapshot: those saveSnapshot has returned
IssuedIds == DOMAIN savedState

\* and those of the snapshots getHistory() returns
HistoryIds == {snapshots[i].id : i \in 1..Len(snapshots)}

\* get(k).title = t, written by the caller on the object get returned
MutateTitle(k, t) ==
    /\ k \in DOMAIN widgets
    /\ heap[widgets[k]].title # t
    /\ heap' = [heap EXCEPT ![widgets[k]].title = t]
    /\ lastOp' = [op |-> "mutate", key |-> NoKey, ret |-> "ok"]
    /\ UNCHANGED <<cfgHeap, widgets, snapshots, currentSnapshotId, now, savedState>>

\* get(k).config.zoom = z, written by the caller on the object get returned
MutateConfig(k, z) ==
    /\ k \in DOMAIN widgets
    /\ cfgHeap[heap[widgets[k]].config].zoom # z
    /\ cfgHeap' = [cfgHeap EXCEPT ![heap[widgets[k]].config].zoom = z]
    /\ lastOp' = [op |-> "mutate", key |-> NoKey, ret |-> "ok"]
    /\ UNCHANGED <<heap, widgets, snapshots, currentSnapshotId, now, savedState>>

Zooms == {10, 12}

\* ---- serialize / deserialize --------------------------------------------
\* this.snapshots.slice(-10)
recentSnapshots == 10

\* JSON.stringify then JSON.parse of a snapshot: strings and numbers come
\* back as they were, the Map in data comes back as an empty object
JsonSnapshot(snap) == [snap EXCEPT !.data = JsonObject]

LastN(seq, n) ==
    IF Len(seq) <= n THEN seq ELSE SubSeq(seq, Len(seq) - n + 1, Len(seq))

\* JSON.stringify then JSON.parse of a metadata object: strings, booleans
\* and finite numbers come back as they were, NaN comes back as null
JsonValue(md) ==
    [md EXCEPT !.config = [@ EXCEPT !.data = IF @ = "NaN" THEN "null" ELSE @]]

\* Metadata a caller passes to set() before an export: chart data is `any`
DocLiterals ==
    MetadataLiterals \cup {Literal("chart", "b", "T2", 1, CfgChartNaN)}

\* the document serialize() writes: widgets by value (Object.fromEntries),
\* the last snapshots
Document(h, c, m, snaps) ==
    [version |-> "1.0.0",
     widgets |-> [k \in DOMAIN m |-> JsonValue(DeepValue(h, c, m[k]))],
     snapshots |-> LET recent == LastN(snaps, recentSnapshots)
                   IN [i \in 1..Len(recent) |-> JsonSnapshot(recent[i])]]

\* serialize()
Serialize ==
    /\ doc' = Document(heap, cfgHeap, widgets, snapshots)
    /\ docState' = DeepMap(heap, cfgHeap, widgets)
    /\ lastOp' = [op |-> "serialize", key |-> NoKey, ret |-> "ok"]
    /\ UNCHANGED <<heap, cfgHeap, widgets, snapshots, currentSnapshotId, now, savedState>>

\* a snapshot as it stands in a document
ForeignSnapshot(i) ==
    [id |-> <<i, 0>>, timestamp |-> 0, data |-> JsonObject, operation |-> "update",
     elementId |-> NoKey]

\* Documents that did not come from this manager's serialize(): one without
\* a version, and one with a longer snapshots array than serialize() writes
ForeignDocs ==
    {[version |-> "", widgets |-> EmptyMap, snapshots |-> <<>>],
     [version |-> "1.0.0", widgets |-> EmptyMap,
      snapshots |-> [i \in 1..(maxSnapshotHistory + 1) |-> ForeignSnapshot(i)]]}

\* if (!parsed.version || !parsed.widgets) throw
ValidFormat(d) == d.version # ""

\* variant of AfterClear: the entries of the map are kept
AfterNoClear(m) == m

\* this.clear() in deserialize: the map the parsed widgets are set into
AfterClear(m) == EmptyMap

\* the objects JSON.parse made, appended to the heaps in the order of the keys
RECURSIVE ParsedHeap(_, _, _, _)
ParsedHeap(h, nc, values, ks) ==
    IF ks = {} THEN h
    ELSE LET k == FirstKey(ks)
         IN ParsedHeap(Append(h, [values[k] EXCEPT !.config = nc + 1]), nc + 1,
                       values, ks \ {k})

RECURSIVE ParsedCfgHeap(_, _, _)
ParsedCfgHeap(c, values, ks) ==
    IF ks = {} THEN c
    ELSE LET k == FirstKey(ks)
         IN ParsedCfgHeap(Append(c, values[k].config), values, ks \ {k})

RECURSIVE ParsedRefs(_, _, _)
ParsedRefs(m, n, ks) ==
    IF ks = {} THEN m
    ELSE LET k == FirstKey(ks)
         IN ParsedRefs(MapSet(m, k, n + 1), n + 1, ks \ {k})

\* deserialize(data) for the string that encodes document d
Deserialize(d) ==
    IF ~ValidFormat(d)
    THEN /\ lastOp' = [op |-> "deserialize", key |-> NoKey, ret |-> "false"]
         /\ UNCHANGED <<heap, cfgHeap, widgets, snapshots, currentSnapshotId, now, savedState>>
    ELSE /\ currentSnapshotId < MaxSaves
         /\ Len(heap) + Cardinality(DOMAIN d.widgets) <= MaxObjects
         /\ currentSnapshotId' = currentSnapshotId + 1
         /\ savedState' = MapSet(savedState, <<currentSnapshotId + 1, now>>,
                                 DeepMap(heap, cfgHeap, widgets))
         /\ heap' = ParsedHeap(heap, Len(cfgHeap), d.widgets, DOMAIN d.widgets)
         /\ cfgHeap' = ParsedCfgHeap(cfgHeap, d.widgets, DOMAIN d.widgets)
         /\ widgets' = ParsedRefs(AfterClear(widgets), Len(heap), DOMAIN d.widgets)
         /\ snapshots' = d.snapshots
         /\ lastOp' = [op |-> "deserialize", key |-> NoKey, ret |-> "true"]
         /\ UNCHANGED now

\* the storage calls leave the pipeline and the worker manager alone
StoreOnly == UNCHANGED <<docVars, pipeVars, workerVars, enhVars, relVars, detVars, tokVars, boxVars, extVars, createVars>>

StoreNext ==
    \/ Tick /\ UNCHANGED dupWatch /\ StoreOnly
    \/ \E k \in Keys, lit \in MetadataLiterals :
          SetLiteral(k, lit) /\ KeepWatch(k) /\ StoreOnly
    \/ \E k \in Keys, src \in Keys :
          SetFromGet(k, src) /\ dupWatch' = NoWatch /\ StoreOnly
    \/ \E k \in Keys : Delete(k) /\ dupWatch' = NoWatch /\ StoreOnly
    \/ Clear /\ dupWatch' = NoWatch /\ StoreOnly
    \/ \E src \in Keys, dst \in Keys :
          /\ Duplicate(src, dst)
          /\ dupWatch' = IF src \in DOMAIN widgets /\ src # dst
                          THEN [src |-> src, dst |-> dst,
                                value |-> DeepValue(heap', cfgHeap', widgets'[src])]
                          ELSE NoWatch
          /\ StoreOnly
    \/ \E k \in Keys, t \in Titles : UpdateTitle(k, t) /\ KeepWatch(k) /\ StoreOnly
    \/ \E k \in Keys, cfg \in {CfgMap, CfgMapZoom0} :
          UpdateConfig(k, cfg) /\ KeepWatch(k) /\ StoreOnly
    \/ SaveSnapshot /\ UNCHANGED dupWatch /\ StoreOnly
    \/ \E sid \in IssuedIds : RestoreSnapshot(sid) /\ dupWatch' = NoWatch /\ StoreOnly

\* What the caller does with the object get(b) hands out for the target b
\* of its last duplicate(a, b)
CallerNext ==
    \/ \E k \in Keys, t \in Titles :
          dupWatch.dst = k /\ MutateTitle(k, t) /\ UNCHANGED dupWatch /\ StoreOnly
    \/ \E k \in Keys, z \in Zooms :
          dupWatch.dst = k /\ MutateConfig(k, z) /\ UNCHANGED dupWatch /\ StoreOnly

\* The storage after construction; no extraction is under way
InitStore == StoreInit /\ CreateIdle /\ ExtIdle /\ BoxIdle /\ DocIdle /\ TokIdle /\ EnhIdle /\ RelIdle /\ DetIdle /\ PipeIdle /\ WorkerIdle

NextStoreAlias == StoreNext \/ CallerNext

DocOnly == UNCHANGED <<dupWatch, pipeVars, workerVars, enhVars, relVars, detVars, tokVars, boxVars, extVars, createVars>>

\* The storage with its export and import
DocNext ==
    \/ \E k \in Keys, lit \in DocLiterals :
          SetLiteral(k, lit) /\ UNCHANGED docVars /\ DocOnly
    \/ \E k \in Keys : Delete(k) /\ UNCHANGED docVars /\ DocOnly
    \/ Clear /\ UNCHANGED docVars /\ DocOnly
    \/ Serialize /\ DocOnly
    \/ (doc # NoDoc /\ Deserialize(doc)) /\ UNCHANGED docVars /\ DocOnly
    \/ \E d \in ForeignDocs : Deserialize(d) /\ UNCHANGED docVars /\ DocOnly

SpecStoreDoc == InitStore /\ [][DocNext]_vars

\* An id saveSnapshot never returned
UnknownIds == {<<0, 0>>}

\* The storage with its export, its import and restoreSnapshot on the ids of
\* the history
RestoreNext ==
    \/ \E k \in Keys, lit \in MetadataLiterals :
          SetLiteral(k, lit) /\ UNCHANGED docVars /\ DocOnly
    \/ Serialize /\ DocOnly
    \/ (doc # NoDoc /\ Deserialize(doc)) /\ UNCHANGED docVars /\ DocOnly
    \/ \E sid \in HistoryIds \cup IssuedIds \cup UnknownIds :
          RestoreSnapshot(sid) /\ UNCHANGED docVars /\ DocOnly

SpecStoreRestore == InitStore /\ [][RestoreNext]_vars

\* The storage driven through its API
SpecStore == InitStore /\ [][StoreNext]_vars

\* The storage driven through its API by a caller that also writes to the
\* objects get() returned
SpecStoreAlias == InitStore /\ [][NextStoreAlias]_vars

(***************************************************************************)
(* C1: after saveSnapshot returned id s and any mutations, restoreSnapshot *)
(* (s) returns true and get(k) is, for every key, what it was when s was   *)
(* saved.                                                                  *)
(***************************************************************************)
C1_RestoreRoundTrip ==
    (lastOp.op = "restoreSnapshot") =>
        /\ lastOp.ret = "true"
        /\ DeepMap(heap, cfgHeap, widgets) = savedState[lastOp.key]

(***************************************************************************)
(* C2: after duplicate(a, b) returned true, writing to b's fields leaves   *)
(* the value of get(a) unchanged.                                          *)
(***************************************************************************)
C2_DuplicateIndependent ==
    (dupWatch # NoWatch) =>
        /\ dupWatch.src \in DOMAIN widgets
        /\ DeepValue(heap, cfgHeap, widgets[dupWatch.src]) = dupWatch.value

(***************************************************************************)
(* EXTRACTION PIPELINE                                                     *)
(*                                                                         *)
(* Lengths are integers.  Centres and edge midpoints are kept doubled      *)
(* (cx2 = 2x + width), distances squared and doubled, confidences and      *)
(* roundness in hundredths.                                                *)
(***************************************************************************)
MaxElements == 4        \* elements of one request

\* ---- strings as sequences of characters --------------------------------
UpperChars == <<"A","B","C","D","E","F","G","H","I","J","K","L","M",
                "N","O","P","Q","R","S","T","U","V","W","X","Y","Z">>

LowerChars == <<"a","b","c","d","e","f","g","h","i","j","k","l","m",
                "n","o","p","q","r","s","t","u","v","w","x","y","z">>

\* String.prototype.toLowerCase on one character
ToLowerChar(c) ==
    IF \E i \in 1..26 : UpperChars[i] = c
    THEN LowerChars[CHOOSE i \in 1..26 : UpperChars[i] = c]
    ELSE c

ToLowerCase(str) == [i \in 1..Len(str) |-> ToLowerChar(str[i])]

IsSpace(c) == c = " "

\* String.prototype.trim
RECURSIVE TrimLeft(_)
TrimLeft(str) == IF str # <<>> /\ IsSpace(Head(str)) THEN TrimLeft(Tail(str)) ELSE str

RECURSIVE TrimRight(_)
TrimRight(str) ==
    IF str # <<>> /\ IsSpace(str[Len(str)])
    THEN TrimRight(SubSeq(str, 1, Len(str) - 1))
    ELSE str

Trim(str) == TrimRight(TrimLeft(str))

\* word occurs in str at position i, letters compared without case (/i)
MatchAtI(str, i, word) ==
    /\ i >= 1
    /\ i + Len(word) - 1 <= Len(str)
    /\ \A j \in 1..Len(word) : ToLowerChar(str[i + j - 1]) = ToLowerChar(word[j])

\* String.prototype.includes
Includes(str, word) ==
    \E i \in 1..(Len(str) + 1) :
        /\ i + Len(word) - 1 <= Len(str)
        /\ \A j \in 1..Len(word) : str[i + j - 1] = word[j]

AllSpaces(str, from, to) == \A j \in from..to : IsSpace(str[j])

NoBrackets(str, from, to) == \A j \in from..to : str[j] # "[" /\ str[j] # "]"

\* /\[TAG(?:\s*:\s*([^[\]]+))?\]/i
MatchBracket(str, tag) ==
    \E i \in 1..Len(str) :
        /\ str[i] = "["
        /\ MatchAtI(str, i + 1, tag)
        /\ LET j == i + 1 + Len(tag)
           IN \/ (j <= Len(str) /\ str[j] = "]")
              \/ \E a \in j..Len(str), c \in j..Len(str) :
                    /\ a + 1 < c
                    /\ AllSpaces(str, j, a - 1)
                    /\ str[a] = ":"
                    /\ \E m \in (a + 1)..(c - 1) :
                          AllSpaces(str, a + 1, m - 1) /\ NoBrackets(str, m, c - 1)
                    /\ str[c] = "]"

\* /^TAG\s*:\s*(.+)/i
MatchPrefix(str, tag) ==
    /\ MatchAtI(str, 1, tag)
    /\ \E a \in (Len(tag) + 1)..Len(str) :
          /\ AllSpaces(str, Len(tag) + 1, a - 1)
          /\ str[a] = ":"
          /\ a < Len(str)

\* /(?:w1|w2|...)/i, given by the words one of which every match contains
MatchKeyword(str, words) ==
    \E w \in words : \E i \in 1..Len(str) : MatchAtI(str, i, w)

\* ---- widget pattern table of detectWidgetFromText ------------------------
W_MAP == <<"m","a","p">>

W_VIDEO == <<"v","i","d","e","o">>

W_IFRAME == <<"i","f","r","a","m","e">>

W_CHART == <<"c","h","a","r","t">>

W_CALENDAR == <<"c","a","l","e","n","d","a","r">>

W_LOCATION == <<"l","o","c","a","t","i","o","n">>

W_YOUTUBE == <<"y","o","u","t","u","b","e">>

W_VIMEO == <<"v","i","m","e","o">>

W_EMBED == <<"e","m","b","e","d">>

W_WEBSITE == <<"w","e","b","s","i","t","e">>

W_GRAPH == <<"g","r","a","p","h">>

W_PLOT == <<"p","l","o","t">>

W_ANALYTICS == <<"a","n","a","l","y","t","i","c","s">>

W_SCHEDULE == <<"s","c","h","e","d","u","l","e">>

W_EVENT == <<"e","v","e","n","t">>

\* patterns, in the order of the source; google\s*maps? contains map and
\* events? contains event, so these alternatives add no match
WidgetPatterns ==
    << [kind |-> "bracket", tag |-> W_MAP, words |-> {}, type |-> "map", confidence |-> 95],
       [kind |-> "bracket", tag |-> W_VIDEO, words |-> {}, type |-> "video", confidence |-> 95],
       [kind |-> "bracket", tag |-> W_IFRAME, words |-> {}, type |-> "iframe", confidence |-> 90],
       [kind |-> "bracket", tag |-> W_CHART, words |-> {}, type |-> "chart", confidence |-> 90],
       [kind |-> "bracket", tag |-> W_CALENDAR, words |-> {}, type |-> "calendar", confidence |-> 90],
       [kind |-> "prefix", tag |-> W_CHART, words |-> {}, type |-> "chart", confidence |-> 80],
       [kind |-> "prefix", tag |-> W_MAP, words |-> {}, type |-> "map", confidence |-> 80],
       [kind |-> "prefix", tag |-> W_VIDEO, words |-> {}, type |-> "video", confidence |-> 80],
       [kind |-> "prefix", tag |-> W_IFRAME, words |-> {}, type |-> "iframe", confidence |-> 80],
       [kind |-> "prefix", tag |-> W_CALENDAR, words |-> {}, type |-> "calendar", confidence |-> 80],
       [kind |-> "keyword", tag |-> <<>>, words |-> {W_MAP, W_LOCATION},
        type |-> "map", confidence |-> 70],
       [kind |-> "keyword", tag |-> <<>>, words |-> {W_YOUTUBE, W_VIMEO, W_VIDEO},
        type |-> "video", confidence |-> 80],
       [kind |-> "keyword", tag |-> <<>>, words |-> {W_EMBED, W_IFRAME, W_WEBSITE},
        type |-> "iframe", confidence |-> 70],
       [kind |-> "keyword", tag |-> <<>>, words |-> {W_CHART, W_GRAPH, W_PLOT, W_ANALYTICS},
        type |-> "chart", confidence |-> 75],
       [kind |-> "keyword", tag |-> <<>>, words |-> {W_CALENDAR, W_SCHEDULE, W_EVENT},
        type |-> "calendar", confidence |-> 75] >>

\* pattern.test(text)
PatternTest(pat, text) ==
    CASE pat.kind = "bracket" -> MatchBracket(text, pat.tag)
      [] pat.kind = "prefix" -> MatchPrefix(text, pat.tag)
      [] pat.kind = "keyword" -> MatchKeyword(text, pat.words)

\* detectWidgetFromText: the first pattern of the table that matches decides
detectWidgetFromText(text) ==
    IF \E i \in 1..Len(WidgetPatterns) : PatternTest(WidgetPatterns[i], text)
    THEN LET i == CHOOSE n \in 1..Len(WidgetPatterns) :
                    /\ PatternTest(WidgetPatterns[n], text)
                    /\ \A m \in 1..(n - 1) : ~PatternTest(WidgetPatterns[m], text)
         IN [isWidget |-> TRUE, type |-> WidgetPatterns[i].type,
             confidence |-> WidgetPatterns[i].confidence, detectionMethod |-> "pattern"]
    ELSE [isWidget |-> FALSE, type |-> "none", confidence |-> 0, detectionMethod |-> "none"]

\* ---- ComponentRole (types/extraction) ------------------------------------
ComponentRole ==
    [BUTTON |-> "button", INPUT_FIELD |-> "input_field", RADIO_BUTTON |-> "radio_button",
     CARD |-> "card", TEXT_BLOCK |-> "text_block", TITLE |-> "title", LABEL |-> "label",
     ICON |-> "icon", IMAGE_PLACEHOLDER |-> "image_placeholder",
     PROCESS_STEP |-> "process_step", DECISION_POINT |-> "decision_point",
     CONNECTOR |-> "connector", CONTAINER |-> "container", COMPONENT |-> "component",
     UNKNOWN |-> "unknown"]

\* ComponentRole.<member>: a member the enum does not declare reads undefined
RoleMember(name) ==
    IF name \in DOMAIN ComponentRole THEN ComponentRole[name] ELSE "undefined"

\* ---- the elements a request is drawn from ------------------------------
NoText == <<>>

Raw(id, type, x, y, w, h, roundness, text, groupId) ==
    [id |-> id, type |-> type, x |-> x, y |-> y, width |-> w, height |-> h,
     roundness |-> roundness, fontSize |-> 0, text |-> text, groupId |-> groupId]

Palette ==
    {Raw("r1", "rectangle", 0, 0, 200, 100, 20, NoText, ""),
     Raw("r2", "rectangle", 50, 20, 200, 120, 0, NoText, ""),
     Raw("t1", "text", 10, 10, 60, 20, 0, <<"L","o","g","i","n">>, ""),
     Raw("t2", "text", 10, 60, 60, 20, 0, <<"[","M","A","P","]">>, ""),
     Raw("a1", "arrow", 0, 45, 200, 10, 0, <<"m","a","p">>, ""),
     Raw("a2", "arrow", -15, 45, 215, 10, 0, NoText, ""),
     Raw("l1", "line", 0, 0, 200, 100, 0, NoText, ""),
     Raw("d1", "diamond", 300, 0, 60, 60, 0, <<"m","a","p">>, "g1"),
     Raw("b1", "rectangle", 300, 200, 120, 40, 30,
         <<"C","l","i","c","k"," ","M","e">>, "")}

\* request.options as the callers set them: the manager's default, extractFast,
\* widget detection switched off, and a caller's own cap on the components
OptionSets ==
    {[minConfidence |-> 30, enableWidgetDetection |-> TRUE, maxComponents |-> 100],
     [minConfidence |-> 50, enableWidgetDetection |-> TRUE, maxComponents |-> 50],
     [minConfidence |-> 30, enableWidgetDetection |-> FALSE, maxComponents |-> 100],
     [minConfidence |-> 30, enableWidgetDetection |-> TRUE, maxComponents |-> 2]}

\* Lists of at most n elements with distinct ids
RECURSIVE ElementLists(_)
ElementLists(n) ==
    IF n = 0 THEN {<<>>}
    ELSE LET shorter == ElementLists(n - 1)
         IN shorter \cup
            {Append(l, e) : l \in {s \in shorter : Len(s) = n - 1},
                            e \in Palette}

DistinctIds(l) == \A i, j \in 1..Len(l) : i # j => l[i].id # l[j].id

Requests == {l \in ElementLists(MaxElements) : DistinctIds(l)}

\* ---- STAGE 1: normalizeElements ----------------------------------------
\* calculateBoundingBox for angle 0
calculateBoundingBox(el) ==
    [x |-> el.x, y |-> el.y, width |-> el.width, height |-> el.height,
     cx2 |-> 2 * el.x + el.width, cy2 |-> 2 * el.y + el.height,
     area |-> el.width * el.height]

normalizeElement(el, index) ==
    [id |-> el.id, type |-> el.type, boundingBox |-> calculateBoundingBox(el),
     roundness |-> el.roundness,
     fontSize |-> IF el.fontSize = 0 THEN 16 ELSE el.fontSize,
     text |-> el.text, groupId |-> el.groupId, zIndex |-> index]

OfType(els, types) ==
    SelectSeq([i \in 1..Len(els) |-> normalizeElement(els[i], i - 1)],
              LAMBDA e : e.type \in types)

KnownTypes == {"rectangle", "diamond", "ellipse", "arrow", "line", "text", "image"}

normalizeElements(els) ==
    [rectangles |-> OfType(els, {"rectangle"}),
     diamonds |-> OfType(els, {"diamond"}),
     ellipses |-> OfType(els, {"ellipse"}),
     arrows |-> OfType(els, {"arrow"}),
     lines |-> OfType(els, {"line"}),
     text |-> OfType(els, {"text"}),
     images |-> OfType(els, {"image"}),
     other |-> SelectSeq([i \in 1..Len(els) |-> normalizeElement(els[i], i - 1)],
                         LAMBDA e : e.type \notin KnownTypes)]

\* ---- STAGE 2: detectContainers -----------------------------------------
sizeThreshold == 5000

calculateOverlap(box1, box2) ==
    LET Max(a, b) == IF a >= b THEN a ELSE b
        Min(a, b) == IF a <= b THEN a ELSE b
        left == Max(box1.x, box2.x)
        right == Min(box1.x + box1.width, box2.x + box2.width)
        top == Max(box1.y, box2.y)
        bottom == Min(box1.y + box1.height, box2.y + box2.height)
    IN IF left >= right \/ top >= bottom THEN 0 ELSE (right - left) * (bottom - top)

\* centre inside the container's box, or more than half of the element's area
\* inside it (overlap / area > 0.5)
isContained(element, container) ==
    LET eb == element.boundingBox
        cb == container.boundingBox
        centerInside ==
            /\ eb.cx2 >= 2 * cb.x
            /\ eb.cx2 <= 2 * (cb.x + cb.width)
            /\ eb.cy2 >= 2 * cb.y
            /\ eb.cy2 <= 2 * (cb.y + cb.height)
    IN centerInside \/ 2 * calculateOverlap(eb, cb) > eb.area

\* Array.prototype.sort((a, b) => a.zIndex - b.zIndex), by insertion
RECURSIVE InsertByZ(_, _)
InsertByZ(sorted, e) ==
    IF sorted = <<>> THEN <<e>>
    ELSE IF e.zIndex < Head(sorted).zIndex THEN <<e>> \o sorted
    ELSE <<Head(sorted)>> \o InsertByZ(Tail(sorted), e)

RECURSIVE SortByZ(_)
SortByZ(s) == IF s = <<>> THEN <<>> ELSE InsertByZ(SortByZ(SubSeq(s, 1, Len(s) - 1)), s[Len(s)])

\* the inner loop of detectContainers: the elements from position j on, tested
\* against one container; acc = [contained, parentMap]
RECURSIVE ContainedLoop(_, _, _, _)
ContainedLoop(container, allElements, j, acc) ==
    IF j > Len(allElements) THEN acc
    ELSE LET element == allElements[j]
         IN IF element.id = container.id \/ element.id \in DOMAIN acc.parentMap
            THEN ContainedLoop(container, allElements, j + 1, acc)
            ELSE IF isContained(element, container)
            THEN ContainedLoop(container, allElements, j + 1,
                    [contained |-> Append(acc.contained, element.id),
                     parentMap |-> MapSet(acc.parentMap, element.id, container.id)])
            ELSE ContainedLoop(container, allElements, j + 1, acc)

\* the outer loop of detectContainers; acc = [containmentMap, parentMap]
RECURSIVE ContainerLoop(_, _, _, _)
ContainerLoop(potentialContainers, allElements, i, acc) ==
    IF i > Len(potentialContainers) THEN acc
    ELSE LET container == potentialContainers[i]
             inner == ContainedLoop(container, allElements, 1,
                         [contained |-> <<>>, parentMap |-> acc.parentMap])
         IN ContainerLoop(potentialContainers, allElements, i + 1,
               [containmentMap |->
                    IF Len(inner.contained) > 0
                    THEN MapSet(acc.containmentMap, container.id, inner.contained)
                    ELSE acc.containmentMap,
                parentMap |-> inner.parentMap])

GroupIds == {"g1"}

\* `group-${groupId}`
GroupKey(groupId) == CASE groupId = "g1" -> "group-g1"

\* native groups; an element has one groupId, so the groups write disjoint
\* keys and their order does not show in the maps; acc as above
RECURSIVE GroupLoop(_, _, _)
GroupLoop(allElements, gids, acc) ==
    IF gids = {} THEN acc
    ELSE LET g == CHOOSE x \in gids : TRUE
             members == SelectSeq(allElements, LAMBDA e : e.groupId = g)
             ids == [k \in 1..Len(members) |-> members[k].id]
         IN GroupLoop(allElements, gids \ {g},
               [containmentMap |-> MapSet(acc.containmentMap, GroupKey(g), ids),
                parentMap |-> [x \in DOMAIN acc.parentMap \cup {ids[k] : k \in 1..Len(ids)} |->
                                 IF \E k \in 1..Len(ids) : ids[k] = x
                                 THEN GroupKey(g) ELSE acc.parentMap[x]]])

detectContainers(groups) ==
    LET potentialContainers ==
            SortByZ(SelectSeq(groups.rectangles, LAMBDA e : e.boundingBox.area > sizeThreshold)
                    \o SelectSeq(groups.ellipses, LAMBDA e : e.boundingBox.area > sizeThreshold))
        allElements == groups.rectangles \o groups.diamonds \o groups.ellipses
                       \o groups.text \o groups.images \o groups.other
        contained == ContainerLoop(potentialContainers, allElements, 1,
                         [containmentMap |-> EmptyMap, parentMap |-> EmptyMap])
        present == {g \in GroupIds : \E k \in 1..Len(allElements) : allElements[k].groupId = g}
        grouped == GroupLoop(allElements, present, contained)
    IN [containers |-> potentialContainers,
        containmentMap |-> grouped.containmentMap,
        parentMap |-> grouped.parentMap]

\* ---- STAGE 3: attachText -----------------------------------------------
titleThreshold == 20

NullId == "null"

\* overlap / minWidth > 0.5
calculateHorizontalOverlapAboveHalf(box1, box2) ==
    LET Max(a, b) == IF a >= b THEN a ELSE b
        Min(a, b) == IF a <= b THEN a ELSE b
        left == Max(box1.x, box2.x)
        right == Min(box1.x + box1.width, box2.x + box2.width)
    IN left < right /\ 2 * (right - left) > Min(box1.width, box2.width)

\* relativeY < 0.3 or a font larger than 16
isTextTitle(textElement, container) ==
    \/ 10 * (textElement.boundingBox.cy2 - 2 * container.boundingBox.y)
          < 3 * 2 * container.boundingBox.height
    \/ textElement.fontSize > 16

FindById(els, id) ==
    IF \E i \in 1..Len(els) : els[i].id = id
    THEN <<els[CHOOSE i \in 1..Len(els) :
                  els[i].id = id /\ \A j \in 1..(i - 1) : els[j].id # id]>>
    ELSE <<>>

IsAbove(textElement, element) ==
    LET distanceAbove == element.boundingBox.y
                         - (textElement.boundingBox.y + textElement.boundingBox.height)
    IN /\ element.id # textElement.id
       /\ element.type # "text"
       /\ distanceAbove > 0
       /\ distanceAbove <= titleThreshold
       /\ calculateHorizontalOverlapAboveHalf(textElement.boundingBox, element.boundingBox)

\* variant of StandaloneAttachment: text that attaches to nothing is a body
StandaloneAsBody(textElement) ==
    [textId |-> textElement.id, attachedTo |-> NullId,
     attachmentType |-> "body", confidence |-> 100]

\* findTextAttachment, the last return: standalone text
StandaloneAttachment(textElement) ==
    [textId |-> textElement.id, attachedTo |-> NullId,
     attachmentType |-> "standalone", confidence |-> 100]

findTextAttachment(textElement, allElements, hier) ==
    LET hasParent == textElement.id \in DOMAIN hier.parentMap
        parentId == IF hasParent THEN hier.parentMap[textElement.id] ELSE NullId
        container == IF hasParent THEN FindById(allElements, parentId) ELSE <<>>
    IN IF container # <<>>
       THEN [textId |-> textElement.id, attachedTo |-> parentId,
             attachmentType |-> IF isTextTitle(textElement, container[1]) THEN "title" ELSE "body",
             confidence |-> 90]
       ELSE IF \E i \in 1..Len(allElements) : IsAbove(textElement, allElements[i])
       THEN LET i == CHOOSE n \in 1..Len(allElements) :
                       /\ IsAbove(textElement, allElements[n])
                       /\ \A m \in 1..(n - 1) : ~IsAbove(textElement, allElements[m])
            IN [textId |-> textElement.id, attachedTo |-> allElements[i].id,
                attachmentType |-> "title", confidence |-> 80]
       ELSE StandaloneAttachment(textElement)

attachText(textElements, allElements, hier) ==
    [i \in 1..Len(textElements) |-> findTextAttachment(textElements[i], allElements, hier)]

\* ---- STAGE 4: analyzeConnectors ----------------------------------------
snapThreshold == 15

NoAttachment == [shapeId |-> NullId, attachmentPoint |-> "none", distance |-> -1]

\* the nine attachment points in the order of Object.entries, doubled
getShapeAttachmentPoints(shape) ==
    LET b == shape.boundingBox
        x2 == 2 * b.x
        y2 == 2 * b.y
        r2 == 2 * (b.x + b.width)
        b2 == 2 * (b.y + b.height)
    IN << [name |-> "center", x |-> b.cx2, y |-> b.cy2],
          [name |-> "top", x |-> b.cx2, y |-> y2],
          [name |-> "bottom", x |-> b.cx2, y |-> b2],
          [name |-> "left", x |-> x2, y |-> b.cy2],
          [name |-> "right", x |-> r2, y |-> b.cy2],
          [name |-> "top-left", x |-> x2, y |-> y2],
          [name |-> "top-right", x |-> r2, y |-> y2],
          [name |-> "bottom-left", x |-> x2, y |-> b2],
          [name |-> "bottom-right", x |-> r2, y |-> b2] >>

\* square of twice the distance between two doubled points
Dist2(p, q) == (p.x - q.x) * (p.x - q.x) + (p.y - q.y) * (p.y - q.y)

\* the loops of findNearestShapeAttachment over shapes (i) and points (k);
\* acc = [closest, min2]; distance < minDistance compared on the squares
RECURSIVE NearestLoop(_, _, _, _, _, _)
NearestLoop(point, shapes, excludeId, i, k, acc) ==
    IF i > Len(shapes) THEN acc.closest
    ELSE IF shapes[i].id = excludeId \/ shapes[i].type \in {"arrow", "line"} \/ k > 9
    THEN NearestLoop(point, shapes, excludeId, i + 1, 1, acc)
    ELSE LET pt == getShapeAttachmentPoints(shapes[i])[k]
             d2 == Dist2(point, pt)
         IN NearestLoop(point, shapes, excludeId, i, k + 1,
               IF d2 < acc.min2
               THEN [closest |-> [shapeId |-> shapes[i].id, attachmentPoint |-> pt.name,
                                  distance |-> d2],
                     min2 |-> d2]
               ELSE acc)

findNearestShapeAttachment(point, shapes, threshold, excludeId) ==
    NearestLoop(point, shapes, excludeId, 1, 1,
                [closest |-> NoAttachment, min2 |-> (2 * threshold) * (2 * threshold)])

getArrowStartPoint(arrow) ==
    [x |-> 2 * arrow.boundingBox.x, y |-> arrow.boundingBox.cy2]

getArrowEndPoint(arrow) ==
    [x |-> 2 * (arrow.boundingBox.x + arrow.boundingBox.width), y |-> arrow.boundingBox.cy2]

getLineStartPoint(line) ==
    [x |-> 2 * line.boundingBox.x, y |-> 2 * line.boundingBox.y]

getLineEndPoint(line) ==
    [x |-> 2 * (line.boundingBox.x + line.boundingBox.width),
     y |-> 2 * (line.boundingBox.y + line.boundingBox.height)]

\* variant of BothAttached: one attached end is enough
BothAttachedEitherEnd(startAttachment, endAttachment) ==
    ~(startAttachment = NoAttachment /\ endAttachment = NoAttachment)

\* both ends must attach: if (!startAttachment || !endAttachment) return null
BothAttached(startAttachment, endAttachment) ==
    ~(startAttachment = NoAttachment \/ endAttachment = NoAttachment)

\* analyzeArrowConnector: <<connector>> or <<>> for null
analyzeArrowConnector(arrow, shapes, threshold) ==
    LET startAttachment ==
            findNearestShapeAttachment(getArrowStartPoint(arrow), shapes, threshold, arrow.id)
        endAttachment ==
            findNearestShapeAttachment(getArrowEndPoint(arrow), shapes, threshold, arrow.id)
    IN IF BothAttached(startAttachment, endAttachment)
       THEN << [elementId |-> arrow.id, startAttachment |-> startAttachment,
                endAttachment |-> endAttachment, direction |-> "start-to-end",
                label |-> arrow.text, confidence |-> 90] >>
       ELSE <<>>

\* analyzeLineConnector: <<connector>> or <<>> for null
analyzeLineConnector(line, shapes, threshold) ==
    LET startAttachment ==
            findNearestShapeAttachment(getLineStartPoint(line), shapes, threshold, line.id)
        endAttachment ==
            findNearestShapeAttachment(getLineEndPoint(line), shapes, threshold, line.id)
    IN IF BothAttached(startAttachment, endAttachment)
       THEN << [elementId |-> line.id, startAttachment |-> startAttachment,
                endAttachment |-> endAttachment, direction |-> "bidirectional",
                label |-> line.text, confidence |-> 80] >>
       ELSE <<>>

RECURSIVE Flatten(_)
Flatten(ss) == IF ss = <<>> THEN <<>> ELSE Head(ss) \o Flatten(Tail(ss))

analyzeConnectors(arrows, lines, allShapes) ==
    Flatten([i \in 1..Len(arrows) |-> analyzeArrowConnector(arrows[i], allShapes, snapThreshold)])
    \o Flatten([i \in 1..Len(lines) |-> analyzeLineConnector(lines[i], allShapes, snapThreshold)])

\* ---- STAGE 5: assignRoles ----------------------------------------------
\* String(object), what Array.prototype.join makes of a TextAttachment
ObjectString == <<"[","o","b","j","e","c","t"," ","O","b","j","e","c","t","]">>

\* parts.join(' ')
RECURSIVE Join(_)
Join(parts) ==
    IF parts = <<>> THEN <<>>
    ELSE IF Len(parts) = 1 THEN parts[1]
    ELSE parts[1] \o <<" ">> \o Join(Tail(parts))

Assignment(id, role, confidence) == [elementId |-> id, role |-> role, confidence |-> confidence]

\* variant of FlowRules: the CARD test runs after the PROCESS_STEP test
FlowRulesCardLast(r0, isButton, isCard, isProcess) ==
    LET r1 == IF isButton THEN Assignment(r0.elementId, RoleMember("BUTTON"), 90) ELSE r0
        r2 == IF isProcess THEN Assignment(r0.elementId, RoleMember("PROCESS_STEP"), 80) ELSE r1
        r3 == IF isCard THEN Assignment(r0.elementId, RoleMember("CARD"), 70) ELSE r2
    IN r3

\* the BUTTON, CARD and PROCESS_STEP tests of classifyRectangle, in the order
\* of the source: each test that passes overwrites the role set before it
FlowRules(r0, isButton, isCard, isProcess) ==
    LET r1 == IF isButton THEN Assignment(r0.elementId, RoleMember("BUTTON"), 90) ELSE r0
        r2 == IF isCard THEN Assignment(r0.elementId, RoleMember("CARD"), 70) ELSE r1
        r3 == IF isProcess THEN Assignment(r0.elementId, RoleMember("PROCESS_STEP"), 80) ELSE r2
    IN r3

\* the texts the BUTTON test looks at: the text elements attached to the rectangle
ButtonTextSource(rect, attachments) ==
    SelectSeq(attachments, LAMBDA ta : ta.attachedTo = rect.id)

W_DATABASE == <<"d","a","t","a","b","a","s","e">>

W_DB == <<"d","b">>

classifyRectangle(rect, hier, attachments, conns) ==
    LET attachedText == ButtonTextSource(rect, attachments)
        hasText == Len(attachedText) > 0
        text == IF hasText
                THEN Join([i \in 1..Len(attachedText) |-> ObjectString])
                ELSE <<>>
        isContainer == rect.id \in DOMAIN hier.containmentMap
        containedCount == IF isContainer THEN Len(hier.containmentMap[rect.id]) ELSE 0
        hasConnectors == \E i \in 1..Len(conns) :
                            \/ conns[i].startAttachment.shapeId = rect.id
                            \/ conns[i].endAttachment.shapeId = rect.id
        w == rect.boundingBox.width
        h == rect.boundingBox.height
        rounded == rect.roundness > 10
        isButton == /\ rounded /\ hasText
                    /\ Len(text) < 50 /\ 2 * w > 3 * h /\ w < 6 * h
        hasTitle == \E i \in 1..Len(attachedText) : attachedText[i].attachmentType = "title"
        isCard == isContainer /\ containedCount > 1 /\ (hasTitle \/ hasText)
        isProcess == hasConnectors /\ rounded
        r3 == FlowRules(Assignment(rect.id, RoleMember("UNKNOWN"), 0), isButton, isCard, isProcess)
        isDatabase == /\ 10 * w > 8 * h /\ 10 * w < 12 * h /\ rect.boundingBox.area > 10000
                      /\ (Includes(ToLowerCase(text), W_DATABASE) \/ Includes(ToLowerCase(text), W_DB))
        r4 == IF isDatabase THEN Assignment(rect.id, RoleMember("UNKNOWN"), 85) ELSE r3
        r5 == IF isContainer /\ containedCount > 0 /\ r4.role = RoleMember("UNKNOWN")
              THEN Assignment(rect.id, RoleMember("CONTAINER"), 80) ELSE r4
        r6 == IF r5.role = RoleMember("UNKNOWN") /\ rect.boundingBox.area > 20000
              THEN Assignment(rect.id, RoleMember("CONTAINER"), 60) ELSE r5
        r7 == IF r6.role = RoleMember("UNKNOWN")
              THEN Assignment(rect.id, RoleMember("COMPONENT"), 30) ELSE r6
    IN r7

analyzeDiamond(diamond) == Assignment(diamond.id, RoleMember("DECISION_POINT"), 95)

analyzeEllipse(ellipse) ==
    LET w == ellipse.boundingBox.width
        h == ellipse.boundingBox.height
    IN IF 10 * w > 8 * h /\ 10 * w < 12 * h
       THEN IF ellipse.boundingBox.area < 2000
            THEN Assignment(ellipse.id, RoleMember("RADIO_BUTTON"), 70)
            ELSE Assignment(ellipse.id, RoleMember("ICON"), 60)
       ELSE Assignment(ellipse.id, RoleMember("COMPONENT"), 50)

analyzeTextElement(textEl, attachments) ==
    LET found == SelectSeq(attachments, LAMBDA ta : ta.textId = textEl.id)
    IN IF found # <<>> /\ found[1].attachmentType = "title"
       THEN Assignment(textEl.id, RoleMember("TITLE"), 90)
       ELSE IF found # <<>> /\ found[1].attachmentType = "body"
       THEN Assignment(textEl.id, RoleMember("TEXT_BLOCK"), 80)
       ELSE Assignment(textEl.id, RoleMember("TEXT_BLOCK"), 100)

analyzeImage(image) == Assignment(image.id, RoleMember("IMAGE_PLACEHOLDER"), 100)

analyzeConnectorRole(connector) ==
    Assignment(connector.elementId, RoleMember("CONNECTOR"), connector.confidence)

assignRoles(groups, hier, attachments, conns) ==
    [i \in 1..Len(groups.rectangles) |->
        classifyRectangle(groups.rectangles[i], hier, attachments, conns)]
    \o [i \in 1..Len(groups.diamonds) |-> analyzeDiamond(groups.diamonds[i])]
    \o [i \in 1..Len(groups.ellipses) |-> analyzeEllipse(groups.ellipses[i])]
    \o [i \in 1..Len(groups.text) |-> analyzeTextElement(groups.text[i], attachments)]
    \o [i \in 1..Len(groups.images) |-> analyzeImage(groups.images[i])]
    \o [i \in 1..Len(conns) |-> analyzeConnectorRole(conns[i])]

\* ---- STAGE 6: detectWidgets --------------------------------------------
\* the element types detectWidgets looks at
WidgetCandidateTypes == {"rectangle", "text"}

detectWidgetFromElement(element) ==
    IF element.text = NoText
    THEN [elementId |-> element.id, isWidget |-> FALSE, widgetType |-> "none",
          confidence |-> 0, detectionMethod |-> "none"]
    ELSE LET detection == detectWidgetFromText(Trim(element.text))
         IN IF detection.isWidget
            THEN [elementId |-> element.id, isWidget |-> TRUE, widgetType |-> detection.type,
                  confidence |-> detection.confidence, detectionMethod |-> "pattern"]
            ELSE [elementId |-> element.id, isWidget |-> FALSE, widgetType |-> "none",
                  confidence |-> 0, detectionMethod |-> "none"]

detectWidgets(els) ==
    LET candidateElements == SelectSeq(els, LAMBDA el : el.type \in WidgetCandidateTypes)
    IN [i \in 1..Len(candidateElements) |-> detectWidgetFromElement(candidateElements[i])]

\* ---- convertToSemanticComponents and the confidence filter -------------
AllOf(groups) ==
    groups.rectangles \o groups.diamonds \o groups.ellipses \o groups.arrows
    \o groups.lines \o groups.text \o groups.images \o groups.other

\* the role a component gets: the widget override, or the assigned role
FinalRole(isWidget, assignedRole) ==
    IF isWidget THEN RoleMember("WIDGET") ELSE assignedRole

convertToSemanticComponents(assignments, groups, detections) ==
    LET Component(assignment) ==
            LET element == FindById(AllOf(groups), assignment.elementId)
                found == SelectSeq(detections, LAMBDA wd : wd.elementId = assignment.elementId)
                isWidget == found # <<>> /\ found[1].isWidget
            IN IF element = <<>> THEN <<>>
               ELSE << [id |-> assignment.elementId,
                        elementIds |-> <<assignment.elementId>>,
                        role |-> FinalRole(isWidget, assignment.role),
                        confidence |-> assignment.confidence,
                        boundingBox |-> element[1].boundingBox,
                        textContent |-> element[1].text,
                        shapeType |-> element[1].type,
                        isWidget |-> isWidget] >>
    IN Flatten([i \in 1..Len(assignments) |-> Component(assignments[i])])

\* components.filter(comp => comp.confidence >= options.minConfidence)
FilterByConfidence(comps, minConfidence) ==
    SelectSeq(comps, LAMBDA c : c.confidence >= minConfidence)

\* ---- runExtractionPipeline, stage by stage -----------------------------
Shapes(groups) == groups.rectangles \o groups.diamonds \o groups.ellipses

PipeInit ==
    /\ elements \in Requests
    /\ options \in OptionSets
    /\ stage = "request"
    /\ normalizedGroups = <<>>
    /\ hierarchy = <<>>
    /\ textAttachments = <<>>
    /\ connectors = <<>>
    /\ roleAssignments = <<>>
    /\ widgetDetections = <<>>
    /\ components = <<>>

Stage1 ==
    /\ stage = "request"
    /\ normalizedGroups' = normalizeElements(elements)
    /\ stage' = "normalized"
    /\ UNCHANGED <<elements, options, hierarchy, textAttachments, connectors,
                   roleAssignments, widgetDetections, components>>

Stage2 ==
    /\ stage = "normalized"
    /\ hierarchy' = detectContainers(normalizedGroups)
    /\ stage' = "containers"
    /\ UNCHANGED <<elements, options, normalizedGroups, textAttachments, connectors,
                   roleAssignments, widgetDetections, components>>

Stage3 ==
    /\ stage = "containers"
    /\ textAttachments' = attachText(normalizedGroups.text, Shapes(normalizedGroups), hierarchy)
    /\ stage' = "text"
    /\ UNCHANGED <<elements, options, normalizedGroups, hierarchy, connectors,
                   roleAssignments, widgetDetections, components>>

Stage4 ==
    /\ stage = "text"
    /\ connectors' = analyzeConnectors(normalizedGroups.arrows, normalizedGroups.lines,
                                       Shapes(normalizedGroups))
    /\ stage' = "connectors"
    /\ UNCHANGED <<elements, options, normalizedGroups, hierarchy, textAttachments,
                   roleAssignments, widgetDetections, components>>

Stage5 ==
    /\ stage = "connectors"
    /\ roleAssignments' = assignRoles(normalizedGroups, hierarchy, textAttachments, connectors)
    /\ stage' = "roles"
    /\ UNCHANGED <<elements, options, normalizedGroups, hierarchy, textAttachments,
                   connectors, widgetDetections, components>>

Stage6 ==
    /\ stage = "roles"
    /\ widgetDetections' =
          IF options.enableWidgetDetection
          THEN detectWidgets(normalizedGroups.rectangles \o normalizedGroups.diamonds
                             \o normalizedGroups.ellipses \o normalizedGroups.text
                             \o normalizedGroups.images \o normalizedGroups.other)
          ELSE <<>>
    /\ stage' = "widgets"
    /\ UNCHANGED <<elements, options, normalizedGroups, hierarchy, textAttachments,
                   connectors, roleAssignments, components>>

Convert ==
    /\ stage = "widgets"
    /\ components' = FilterByConfidence(
                        convertToSemanticComponents(roleAssignments, normalizedGroups,
                                                    widgetDetections),
                        options.minConfidence)
    /\ stage' = "done"
    /\ UNCHANGED <<elements, options, normalizedGroups, hierarchy, textAttachments,
                   connectors, roleAssignments, widgetDetections>>

\* the pipeline leaves the storage and the worker manager alone
PipeOnly == UNCHANGED <<storeVars, docVars, workerVars, enhVars, relVars, detVars, tokVars, boxVars, extVars, createVars>>

PipeNext ==
    \/ Stage1 /\ PipeOnly
    \/ Stage2 /\ PipeOnly
    \/ Stage3 /\ PipeOnly
    \/ Stage4 /\ PipeOnly
    \/ Stage5 /\ PipeOnly
    \/ Stage6 /\ PipeOnly
    \/ Convert /\ PipeOnly

\* An extraction request arrives; the storage is as constructed
InitPipe == StoreInit /\ CreateIdle /\ ExtIdle /\ BoxIdle /\ DocIdle /\ TokIdle /\ EnhIdle /\ RelIdle /\ DetIdle /\ PipeInit /\ WorkerIdle

\* One run of runExtractionPipeline on a request
SpecPipe == InitPipe /\ [][PipeNext]_vars

HasHierarchy == stage \in {"containers", "text", "connectors", "roles", "widgets", "done"}

HasConnectors == stage \in {"connectors", "roles", "widgets", "done"}

HasRoles == stage \in {"roles", "widgets", "done"}

SeqToSet(s) == {s[i] : i \in 1..Len(s)}

(***************************************************************************)
(* C3: the parentMap of detectContainers has no cycle: following it from   *)
(* an element never comes back to that element.                            *)
(***************************************************************************)
\* the elements reached from e by following pm at least once, at most n times
RECURSIVE AncestorsWithin(_, _, _)
AncestorsWithin(pm, e, n) ==
    IF n = 0 \/ e \notin DOMAIN pm THEN {}
    ELSE {pm[e]} \cup AncestorsWithin(pm, pm[e], n - 1)

C3_ContainmentAcyclic ==
    HasHierarchy =>
        \A e \in DOMAIN hierarchy.parentMap :
            e \notin AncestorsWithin(hierarchy.parentMap, e,
                                     Cardinality(DOMAIN hierarchy.parentMap))

(***************************************************************************)
(* C4: analyzeConnectors emits a Connector for an arrow or line exactly    *)
(* when both of its endpoints lie closer than the snap threshold to an     *)
(* attachment point of one of the shapes it is given, and every emitted    *)
(* Connector has both attachments.                                         *)
(***************************************************************************)
\* point is closer than the threshold to an attachment point of a shape other
\* than the connector itself
Snaps(point, selfId) ==
    \E s \in SeqToSet(Shapes(normalizedGroups)) :
        /\ s.id # selfId
        /\ s.type \notin {"arrow", "line"}
        /\ \E pt \in SeqToSet(getShapeAttachmentPoints(s)) :
              Dist2(point, pt) < 4 * snapThreshold * snapThreshold

Emitted(id) == \E i \in 1..Len(connectors) : connectors[i].elementId = id

C4_ConnectorCompleteness ==
    HasConnectors =>
        /\ \A a \in SeqToSet(normalizedGroups.arrows) :
              Emitted(a.id) <=> (Snaps(getArrowStartPoint(a), a.id)
                                 /\ Snaps(getArrowEndPoint(a), a.id))
        /\ \A l \in SeqToSet(normalizedGroups.lines) :
              Emitted(l.id) <=> (Snaps(getLineStartPoint(l), l.id)
                                 /\ Snaps(getLineEndPoint(l), l.id))
        /\ \A i \in 1..Len(connectors) :
              /\ connectors[i].startAttachment # NoAttachment
              /\ connectors[i].endAttachment # NoAttachment

\* an arrow with exactly one endpoint that snaps was analysed next to an
\* arrow and a line that became Connectors
C4_Witness ==
    /\ stage = "connectors"
    /\ \E a \in SeqToSet(normalizedGroups.arrows) :
          /\ ~Snaps(getArrowStartPoint(a), a.id)
          /\ Snaps(getArrowEndPoint(a), a.id)
          /\ ~Emitted(a.id)
    /\ \E a \in SeqToSet(normalizedGroups.arrows) : Emitted(a.id)
    /\ \E l \in SeqToSet(normalizedGroups.lines) : Emitted(l.id)

(***************************************************************************)
(* C5: with widget detection on, a component of the pipeline output whose  *)
(* element carries text that matches a widget pattern has the role WIDGET  *)
(* ('widget'), whatever kind of element it is.                             *)
(***************************************************************************)
MatchesWidgetPattern(text) == text # NoText /\ detectWidgetFromText(Trim(text)).isWidget

C5_WidgetRoleOverride ==
    (stage = "done" /\ options.enableWidgetDetection) =>
        \A c \in SeqToSet(components) :
            MatchesWidgetPattern(c.textContent) => c.role = "widget"

(***************************************************************************)
(* C6: a rectangle that is rounded, attached to a Connector, has attached  *)
(* text and contains more than one child.                                  *)
(***************************************************************************)
RoundedConnectedCard(rect) ==
    /\ rect.roundness > 10
    /\ \E c \in SeqToSet(connectors) :
          c.startAttachment.shapeId = rect.id \/ c.endAttachment.shapeId = rect.id
    /\ \E ta \in SeqToSet(textAttachments) : ta.attachedTo = rect.id
    /\ rect.id \in DOMAIN hierarchy.containmentMap
    /\ Len(hierarchy.containmentMap[rect.id]) > 1

RoleOf(id) ==
    LET found == SelectSeq(roleAssignments, LAMBDA ra : ra.elementId = id)
    IN found[1]

\* C6 as claimed: such a rectangle is a CARD with confidence 0.7
C6_CardBeforeProcessStep ==
    HasRoles =>
        \A rect \in SeqToSet(normalizedGroups.rectangles) :
            RoundedConnectedCard(rect) =>
                RoleOf(rect.id).role = "card" /\ RoleOf(rect.id).confidence = 70

\* C6 as amended: such a rectangle is a PROCESS_STEP with confidence 0.8
C6_ProcessStepOverridesCard ==
    HasRoles =>
        \A rect \in SeqToSet(normalizedGroups.rectangles) :
            RoundedConnectedCard(rect) =>
                RoleOf(rect.id).role = "process_step" /\ RoleOf(rect.id).confidence = 80

C6_Witness ==
    /\ stage = "roles"
    /\ \E rect \in SeqToSet(normalizedGroups.rectangles) :
          /\ RoundedConnectedCard(rect)
          /\ RoleOf(rect.id).role = "process_step"

(***************************************************************************)
(* C7: a rectangle with roundness above 0.1, a width/height ratio between  *)
(* 1.5 and 6 and fewer than 50 characters of text of its own, without      *)
(* children and connectors, is a BUTTON with confidence at least 0.8.      *)
(***************************************************************************)
ButtonShaped(rect) ==
    /\ rect.roundness > 10
    /\ 2 * rect.boundingBox.width > 3 * rect.boundingBox.height
    /\ rect.boundingBox.width < 6 * rect.boundingBox.height
    /\ rect.text # NoText
    /\ Len(rect.text) < 50
    /\ rect.id \notin DOMAIN hierarchy.containmentMap
    /\ ~\E c \in SeqToSet(connectors) :
          c.startAttachment.shapeId = rect.id \/ c.endAttachment.shapeId = rect.id

C7_ButtonDetection ==
    HasRoles =>
        \A rect \in SeqToSet(normalizedGroups.rectangles) :
            ButtonShaped(rect) =>
                RoleOf(rect.id).role = "button" /\ RoleOf(rect.id).confidence >= 80

(***************************************************************************)
(* EXTRACTION WORKER MANAGER                                               *)
(***************************************************************************)
MaxRequests == 2        \* calls of extractComponents in one run
MaxBurst == 6           \* calls of extractComponents in one burst
MaxTicks == 3           \* steps of the wall clock in one run

timeoutMs == 30000

\* the wall clock advances in halves of the timeout
TickMs == timeoutMs \div 2

\* const queue size of MockExtractionWorkerManager
maxConcurrent == 5

ResponseTypes == {"EXTRACTION_COMPLETE", "EXTRACTION_ERROR"}

NewPromise(t) ==
    [state |-> "pending", reason |-> "", payload |-> 0, calls |-> 0,
     createdAt |-> t, settledAt |-> 0]

\* resolve(payload): a promise that is settled already ignores it
Resolve(p, payload, t) ==
    IF p.state = "pending"
    THEN [p EXCEPT !.state = "resolved", !.payload = payload, !.calls = @ + 1,
                   !.settledAt = t]
    ELSE [p EXCEPT !.calls = @ + 1]

\* reject(new Error(reason))
Reject(p, reason, t) ==
    IF p.state = "pending"
    THEN [p EXCEPT !.state = "rejected", !.reason = reason, !.calls = @ + 1,
                   !.settledAt = t]
    ELSE [p EXCEPT !.calls = @ + 1]

Without(f, ks) == [k \in (DOMAIN f) \ ks |-> f[k]]

With(f, k, v) == [x \in (DOMAIN f) \cup {k} |-> IF x = k THEN v ELSE f[x]]

\* constructor: initWorker either creates the worker or logs the failure
WorkerInit ==
    /\ worker \in {"running", "null"}
    /\ respawnTimer = FALSE
    /\ messageId = 0
    /\ pendingRequests = EmptyFcn
    /\ promises = EmptyFcn
    /\ inbox = {}
    /\ outbox = {}
    /\ warned = {}
    /\ clock = 0

\* extractComponents: it throws without a worker; otherwise the request is
\* accepted, its timeout armed and its message posted
ExtractComponents(limit) ==
    /\ worker = "running"
    /\ messageId < limit
    /\ clock + timeoutMs <= MaxTicks * TickMs
    /\ messageId' = messageId + 1
    /\ pendingRequests' = With(pendingRequests, messageId', clock + timeoutMs)
    /\ promises' = With(promises, messageId', NewPromise(clock))
    /\ inbox' = inbox \cup {messageId'}
    /\ UNCHANGED <<worker, respawnTimer, outbox, warned, clock>>

\* the worker's message handler and handleExtraction: one response per
\* message, carrying the message's id and the result for its request
HandleExtraction(id, type) ==
    /\ worker = "running"
    /\ id \in inbox
    /\ inbox' = inbox \ {id}
    /\ outbox' = outbox \cup {[type |-> type, id |-> id, payload |-> id]}
    /\ UNCHANGED <<worker, respawnTimer, messageId, pendingRequests, promises, warned, clock>>

\* variant of PendingRequest: the oldest pending entry, whatever the id
PendingRequestOldest(id) ==
    IF DOMAIN pendingRequests = {} THEN {}
    ELSE {CHOOSE k \in DOMAIN pendingRequests : \A j \in DOMAIN pendingRequests : k <= j}

\* this.pendingRequests.get(id): the key of the entry found, if any
PendingRequest(id) ==
    IF id \in DOMAIN pendingRequests THEN {id} ELSE {}

\* handleWorkerMessage
HandleWorkerMessage(msg) ==
    /\ msg \in outbox
    /\ outbox' = outbox \ {msg}
    /\ IF PendingRequest(msg.id) = {}
       THEN /\ warned' = warned \cup {msg.id}
            /\ UNCHANGED <<pendingRequests, promises>>
       ELSE LET key == CHOOSE k \in PendingRequest(msg.id) : TRUE
            IN /\ pendingRequests' = Without(pendingRequests, {key})
               /\ promises' =
                     [promises EXCEPT ![key] =
                         IF msg.type = "EXTRACTION_COMPLETE"
                         THEN Resolve(@, msg.payload, clock)
                         ELSE Reject(@, "extraction error", clock)]
               /\ UNCHANGED warned
    /\ UNCHANGED <<worker, respawnTimer, messageId, inbox, clock>>

\* variant of TimeoutSettle: the timeout callback only deletes the entry
TimeoutSettleNothing(p, t) == p

\* what the timeout callback does to the promise
TimeoutSettle(p, t) == Reject(p, "Extraction timeout", t)

\* the timeout callback of extractComponents, run when its timer is due
Timeout(id) ==
    /\ id \in DOMAIN pendingRequests
    /\ clock >= pendingRequests[id]
    /\ pendingRequests' = Without(pendingRequests, {id})
    /\ promises' = [promises EXCEPT ![id] = TimeoutSettle(@, clock)]
    /\ UNCHANGED <<worker, respawnTimer, messageId, inbox, outbox, warned, clock>>

\* variant of RejectAll: the pending promises are left as they are
RejectNone(reason) == promises

\* pendingRequests.forEach(request => request.reject(new Error(reason)))
RejectAll(reason) ==
    [id \in DOMAIN promises |->
        IF id \in DOMAIN pendingRequests THEN Reject(promises[id], reason, clock)
        ELSE promises[id]]

\* terminate(): the worker and its undelivered messages are gone
Terminate ==
    /\ worker = "running"
    /\ worker' = "null"
    /\ promises' = RejectAll("Worker terminated")
    /\ pendingRequests' = EmptyFcn
    /\ inbox' = {}
    /\ outbox' = {}
    /\ UNCHANGED <<respawnTimer, messageId, warned, clock>>

\* handleWorkerError: reject all, clear, terminate(), arm the respawn timer
HandleWorkerError ==
    /\ worker = "running"
    /\ promises' = RejectAll("Worker error")
    /\ pendingRequests' = EmptyFcn
    /\ worker' = "null"
    /\ inbox' = {}
    /\ outbox' = {}
    /\ respawnTimer' = TRUE
    /\ UNCHANGED <<messageId, warned, clock>>

\* the respawn timer runs initWorker, which may fail again
InitWorker ==
    /\ respawnTimer
    /\ respawnTimer' = FALSE
    /\ worker' \in {"running", "null"}
    /\ UNCHANGED <<messageId, pendingRequests, promises, inbox, outbox, warned, clock>>

\* time passes; a timer that is due runs before the clock moves on
ClockTick ==
    /\ clock < MaxTicks * TickMs
    /\ \A id \in DOMAIN pendingRequests : pendingRequests[id] > clock
    /\ clock' = clock + TickMs
    /\ UNCHANGED <<worker, respawnTimer, messageId, pendingRequests, promises, inbox, outbox,
                   warned>>

MessageIds(limit) == 1..limit

Responses(limit) ==
    {[type |-> t, id |-> i, payload |-> i] : t \in ResponseTypes, i \in MessageIds(limit)}

\* the manager and its worker leave the storage and the pipeline state alone
WorkerOnly == UNCHANGED <<storeVars, docVars, pipeVars, enhVars, relVars, detVars, tokVars, boxVars, extVars, createVars>>

WorkerNext ==
    \/ ExtractComponents(MaxRequests) /\ WorkerOnly
    \/ \E id \in MessageIds(MaxRequests), type \in ResponseTypes :
          HandleExtraction(id, type) /\ WorkerOnly
    \/ \E msg \in Responses(MaxRequests) : HandleWorkerMessage(msg) /\ WorkerOnly
    \/ \E id \in MessageIds(MaxRequests) : Timeout(id) /\ WorkerOnly
    \/ Terminate /\ WorkerOnly
    \/ HandleWorkerError /\ WorkerOnly
    \/ InitWorker /\ WorkerOnly
    \/ ClockTick /\ WorkerOnly

\* The manager is constructed; the storage is as constructed
InitManager == StoreInit /\ CreateIdle /\ ExtIdle /\ BoxIdle /\ DocIdle /\ TokIdle /\ EnhIdle /\ RelIdle /\ DetIdle /\ PipeIdle /\ WorkerInit

\* The manager, its worker and the clock
SpecWorker == InitManager /\ [][WorkerNext]_vars

\* The same under the event loop's scheduling: time passes, and a timer that
\* is due runs
FairSpecWorker ==
    /\ InitManager
    /\ [][WorkerNext]_vars
    /\ WF_vars(ClockTick /\ WorkerOnly)
    /\ \A id \in MessageIds(MaxRequests) : WF_vars(Timeout(id) /\ WorkerOnly)

BurstNext ==
    \/ ExtractComponents(MaxBurst) /\ WorkerOnly
    \/ \E id \in MessageIds(MaxBurst), type \in ResponseTypes :
          HandleExtraction(id, type) /\ WorkerOnly
    \/ \E msg \in Responses(MaxBurst) : HandleWorkerMessage(msg) /\ WorkerOnly

\* The manager constructed with a running worker
InitBurst == StoreInit /\ CreateIdle /\ ExtIdle /\ BoxIdle /\ DocIdle /\ TokIdle /\ EnhIdle /\ RelIdle /\ DetIdle /\ PipeIdle /\ WorkerIdle

\* A burst of submissions to a running worker within one instant
SpecWorkerBurst == InitBurst /\ [][BurstNext]_vars

(***************************************************************************)
(* C8: the pending-request table never holds more entries than the         *)
(* concurrency ceiling.                                                    *)
(***************************************************************************)
C8_BoundedConcurrency == Cardinality(DOMAIN pendingRequests) <= maxConcurrent

(***************************************************************************)
(* C9: every accepted request eventually settles; a request is never       *)
(* pending for longer than the timeout, and one that the timeout settles   *)
(* is rejected with 'Extraction timeout' exactly when the timeout has       *)
(* elapsed and is no longer in the pending table.                          *)
(***************************************************************************)
TimeoutInv ==
    \A id \in DOMAIN promises :
        LET p == promises[id]
        IN /\ (p.state = "pending") <=> (id \in DOMAIN pendingRequests)
           /\ (p.state = "pending") => clock <= p.createdAt + timeoutMs
           /\ (p.reason = "Extraction timeout") =>
                 /\ p.state = "rejected"
                 /\ p.settledAt = p.createdAt + timeoutMs
                 /\ id \notin DOMAIN pendingRequests
           /\ (p.state # "pending" /\ p.reason # "Extraction timeout") =>
                 p.settledAt <= p.createdAt + timeoutMs

C9_TimeoutSettles ==
    /\ []TimeoutInv
    /\ \A id \in MessageIds(MaxRequests) :
          (id \in DOMAIN promises)
              ~> (id \in DOMAIN promises /\ promises[id].state # "pending")

\* a request was rejected by its timeout while its response was still under way
C9_Witness ==
    \E id \in DOMAIN promises :
        /\ promises[id].state = "rejected"
        /\ promises[id].reason = "Extraction timeout"
        /\ id \notin DOMAIN pendingRequests
        /\ \/ id \in inbox
           \/ \E msg \in outbox : msg.id = id

(***************************************************************************)
(* C10: each promise has resolve or reject called at most once, is         *)
(* resolved only with the payload of the response that carries its own     *)
(* message id, and a response whose id is not in the pending table leaves  *)
(* the table and every promise as they are.                                *)
(***************************************************************************)
CorrelationInv ==
    \A id \in DOMAIN promises :
        /\ promises[id].calls <= 1
        /\ (promises[id].state = "resolved") => promises[id].payload = id

UnknownIdIgnored ==
    \A msg \in outbox :
        (HandleWorkerMessage(msg) /\ msg.id \notin DOMAIN pendingRequests)
            => UNCHANGED <<pendingRequests, promises>>

C10_Correlation == []CorrelationInv /\ [][UnknownIdIgnored]_vars

\* with requests 1 and 2 in flight, request 2 was answered first and resolved
\* with its own payload, and the late response to the timed-out request 1
\* was dropped
C10_Witness ==
    /\ DOMAIN promises = {1, 2}
    /\ promises[2].createdAt = promises[1].createdAt
    /\ promises[2].state = "resolved"
    /\ promises[2].payload = 2
    /\ promises[2].settledAt < promises[1].settledAt
    /\ promises[1].reason = "Extraction timeout"
    /\ 1 \in warned

(***************************************************************************)
(* C11: when the worker raises an error, every request pending at that     *)
(* moment is rejected, with reject called exactly once, the pending table  *)
(* becomes empty and the respawn of the worker is scheduled; no promise    *)
(* ever has resolve or reject called twice, and once the respawn has made  *)
(* a worker extractComponents accepts requests again.                      *)
(***************************************************************************)
\* the step in which handleWorkerError runs
CrashStep == worker = "running" /\ worker' = "null" /\ ~respawnTimer /\ respawnTimer'

CrashRejectsAll ==
    CrashStep =>
        /\ pendingRequests' = EmptyFcn
        /\ \A id \in DOMAIN pendingRequests :
              /\ promises[id].state = "pending"
              /\ promises'[id].state = "rejected"
              /\ promises'[id].reason = "Worker error"
              /\ promises'[id].calls = 1
        /\ \A id \in (DOMAIN promises) \ (DOMAIN pendingRequests) :
              promises'[id] = promises[id]

\* with a worker, respawned or not, extractComponents accepts a request
\* as long as the run has requests and time left
WorkerAccepts ==
    (worker = "running" /\ messageId < MaxRequests
                        /\ clock + timeoutMs <= MaxTicks * TickMs)
        => ENABLED (ExtractComponents(MaxRequests) /\ WorkerOnly)

SettledOnce == \A id \in DOMAIN promises : promises[id].calls <= 1

RespawnPendingInv == respawnTimer => (worker = "null" /\ pendingRequests = EmptyFcn)

C12_HistoryCapped == Len(snapshots) <= maxSnapshotHistory

(***************************************************************************)
(* C19  Serialization round trip.  A step is a round trip when it is       *)
(* deserialize applied to the string the last serialize returned.          *)
(***************************************************************************)
RoundTrip == doc # NoDoc /\ Deserialize(doc)

\* get(k) after the step, for every key
ValuesAfter == DeepMap(heap', cfgHeap', widgets')

JsonRepresentable(md) == JsonValue(md) = md

InvalidUpdate(k, cfg) ==
    /\ k \in DOMAIN widgets
    /\ ~validateMetadata([DeepValue(heap, cfgHeap, widgets[k]) EXCEPT !.config = cfg])

C20_ValidationSurfaced ==
    [][/\ \A k \in Keys, lit \in MetadataLiterals :
             (SetLiteral(k, lit) /\ ~validateMetadata(lit))
                 => (lastOp'.ret = "throws" /\ widgets' = widgets)
       /\ \A k \in Keys, cfg \in {CfgMap, CfgMapZoom0} :
             (UpdateConfig(k, cfg) /\ InvalidUpdate(k, cfg))
                 => (lastOp'.ret = "throws" /\ widgets' = widgets)]_vars

(***************************************************************************)
(* C13  maxComponents cap.  The components list the pipeline returns never *)
(* holds more than options.maxComponents components.                       *)
(* No stage of the pipeline reads options.maxComponents.                   *)
(***************************************************************************)
C13_MaxComponentsCap ==
    stage = "done" => Len(components) <= options.maxComponents

(***************************************************************************)
(* EnhancedExtractionManager.extractWithGPTEnhancement and enhanceWithGPT  *)
(*                                                                         *)
(* A component is [id, x, y, width, height, role, confidence, hints]:      *)
(* hints is the length of metadata.semanticHints, confidence is in         *)
(* hundredths.  The answers of the external model are inputs.              *)
(***************************************************************************)
MaxLocal == 3           \* components of one local result

Component(id, x, y, role, confidence, hints) ==
    [id |-> id, x |-> x, y |-> y, width |-> 100, height |-> 40, role |-> role,
     confidence |-> confidence, hints |-> hints]

\* Components a local extraction returns
LocalPalette ==
    {Component("c1", 0, 0, "button", 80, 2),
     Component("c2", 100, 0, "text_block", 100, 1),
     Component("c3", 1000, 0, "card", 60, 0),
     Component("c4", 150, 150, "undefined", 95, 1)}

RECURSIVE ComponentLists(_)
ComponentLists(n) ==
    IF n = 0 THEN {<<>>}
    ELSE LET shorter == ComponentLists(n - 1)
         IN shorter \cup
            {Append(l, c) : l \in {s \in shorter : Len(s) = n - 1}, c \in LocalPalette}

LocalResults == {l \in ComponentLists(MaxLocal) : DistinctIds(l)}

\* createFastGPTOptions / createDefaultGPTOptions with the caller's overrides
GptOptionSets ==
    {[maxComponentsPerBatch |-> 2, enableRelationshipDetection |-> FALSE],
     [maxComponentsPerBatch |-> 2, enableRelationshipDetection |-> TRUE],
     [maxComponentsPerBatch |-> 1, enableRelationshipDetection |-> FALSE]}

proximityThreshold == 200

\* calculateDistance(box1, box2) <= proximityThreshold, on doubled centres
WithinProximity(a, b) ==
    LET dx == (2 * b.x + b.width) - (2 * a.x + a.width)
        dy == (2 * b.y + b.height) - (2 * a.y + a.height)
    IN dx * dx + dy * dy <= (2 * proximityThreshold) * (2 * proximityThreshold)

Ids(comps) == {comps[i].id : i \in 1..Len(comps)}

\* groupComponentsSpatially, from component i on, with the ids in processed
RECURSIVE GroupFrom(_, _, _)
GroupFrom(comps, i, processed) ==
    IF i > Len(comps) THEN <<>>
    ELSE IF comps[i].id \in processed THEN GroupFrom(comps, i + 1, processed)
    ELSE LET near == SelectSeq(comps, LAMBDA o :
                         /\ o.id \notin processed \cup {comps[i].id}
                         /\ WithinProximity(comps[i], o))
             group == <<comps[i]>> \o near
         IN <<group>> \o GroupFrom(comps, i + 1, processed \cup Ids(group))

groupComponentsSpatially(comps) == GroupFrom(comps, 1, {})

\* group.splice(0, maxPerBatch) until the group is empty
RECURSIVE Splice(_, _)
Splice(group, maxPerBatch) ==
    IF Len(group) = 0 THEN <<>>
    ELSE IF Len(group) <= maxPerBatch THEN <<group>>
    ELSE <<SubSeq(group, 1, maxPerBatch)>>
         \o Splice(SubSeq(group, maxPerBatch + 1, Len(group)), maxPerBatch)

createIntelligentBatches(comps, maxPerBatch) ==
    LET groups == groupComponentsSpatially(comps)
    IN Flatten([g \in 1..Len(groups) |-> Splice(groups[g], maxPerBatch)])

\* What the external model says about one component
GptEntries ==
    {[enhancedRole |-> "Button", importance |-> 90, description |-> TRUE],
     [enhancedRole |-> "gadget", importance |-> 0, description |-> FALSE]}

\* mapEnhancedRole: lower case, looked up in roleMapping, null when absent
mapEnhancedRole(gptRole) ==
    CASE gptRole = "Button" -> "button"
      [] gptRole = "text-input" -> "input_field"
      [] OTHER -> "null"

Max(a, b) == IF a >= b THEN a ELSE b

Min(a, b) == IF a <= b THEN a ELSE b

\* processBatchResponse for one component: enhanced is the entry found for it
EnhancedComponent(original, enhanced) ==
    [original EXCEPT
        !.role = IF mapEnhancedRole(enhanced.enhancedRole) # "null"
                 THEN mapEnhancedRole(enhanced.enhancedRole) ELSE @,
        !.confidence = Max(@, enhanced.importance),
        !.hints = IF enhanced.description THEN 1 ELSE Min(@, 1)]

\* processBatchResponse, fallback: semanticHints.slice(0, 1)
CompressedComponent(original) == [original EXCEPT !.hints = Min(@, 1)]

\* processBatchResponse(gptResult, originalComponents); gptResult maps the ids
\* it mentions to their entries
processBatchResponse(gptResult, originalComponents) ==
    [i \in 1..Len(originalComponents) |->
        IF originalComponents[i].id \in DOMAIN gptResult
        THEN EnhancedComponent(originalComponents[i], gptResult[originalComponents[i].id])
        ELSE CompressedComponent(originalComponents[i])]

\* The answers the external model can give for a batch
GptResults(batch) ==
    UNION {[mentioned -> GptEntries] : mentioned \in SUBSET Ids(batch)}

\* processBatchWithGPT throws: the request fails, the 10 second timeout wins
\* the race, or the answer is not JSON
BatchFailures == {"api_error", "timeout", "invalid_json"}

\* variant of FallbackComponents: a failed batch contributes nothing
FallbackNothing(batch) == <<>>

\* enhanceWithGPT, catch of a batch: enhancedComponents.push(...batch.components)
FallbackComponents(batch) == batch

\* const localResult = await this.localManager.extractThorough(...)
EnhInit ==
    /\ localComponents \in LocalResults
    /\ gptOptions \in GptOptionSets
    /\ enhPhase = "local"
    /\ batches = <<>>
    /\ batchIndex = 0
    /\ enhancedComponents = <<>>
    /\ failedIds = {}
    /\ enhResult = NoResult

\* enhanceWithGPT, step 1
CreateBatches ==
    /\ enhPhase = "local"
    /\ batches' = createIntelligentBatches(localComponents, gptOptions.maxComponentsPerBatch)
    /\ batchIndex' = 1
    /\ enhPhase' = "batches"
    /\ UNCHANGED <<localComponents, gptOptions, enhancedComponents, failedIds, enhResult>>

\* enhanceWithGPT, step 2, one iteration whose processBatchWithGPT returns
BatchEnhanced(gptResult) ==
    /\ enhPhase = "batches"
    /\ batchIndex <= Len(batches)
    /\ enhancedComponents' =
          enhancedComponents \o processBatchResponse(gptResult, batches[batchIndex])
    /\ batchIndex' = batchIndex + 1
    /\ UNCHANGED <<localComponents, gptOptions, enhPhase, batches, failedIds, enhResult>>

\* enhanceWithGPT, step 2, one iteration whose processBatchWithGPT throws
BatchFailed(failure) ==
    /\ enhPhase = "batches"
    /\ batchIndex <= Len(batches)
    /\ enhancedComponents' = enhancedComponents \o FallbackComponents(batches[batchIndex])
    /\ failedIds' = failedIds \cup Ids(batches[batchIndex])
    /\ batchIndex' = batchIndex + 1
    /\ UNCHANGED <<localComponents, gptOptions, enhPhase, batches, enhResult>>

\* enhanceWithGPT, step 3: detectGlobalRelationships returns or throws, the
\* components are left as they are
GlobalRelationships ==
    /\ enhPhase = "batches"
    /\ batchIndex > Len(batches)
    /\ enhPhase' = "metrics"
    /\ UNCHANGED <<localComponents, gptOptions, batches, batchIndex, enhancedComponents,
                   failedIds, enhResult>>

\* enhanceWithGPT returns; extractWithGPTEnhancement builds its result
EnhanceReturns ==
    /\ enhPhase = "metrics"
    /\ enhResult' = [localComponents |-> localComponents,
                     enhancedComponents |-> enhancedComponents]
    /\ enhPhase' = "done"
    /\ UNCHANGED <<localComponents, gptOptions, batches, batchIndex, enhancedComponents,
                   failedIds>>

\* enhanceWithGPT throws outside its per-batch try; the catch of
\* extractWithGPTEnhancement takes localResult.components
EnhanceThrows ==
    /\ enhPhase \in {"local", "metrics"}
    /\ enhResult' = [localComponents |-> localComponents,
                     enhancedComponents |-> localComponents]
    /\ failedIds' = Ids(localComponents)
    /\ enhPhase' = "done"
    /\ UNCHANGED <<localComponents, gptOptions, batches, batchIndex, enhancedComponents>>

EnhOnly == UNCHANGED <<storeVars, docVars, pipeVars, workerVars, relVars, detVars, tokVars, boxVars, extVars, createVars>>

EnhNext ==
    \/ CreateBatches /\ EnhOnly
    \/ \E gptResult \in GptResults(IF batchIndex \in 1..Len(batches)
                                   THEN batches[batchIndex] ELSE <<>>) :
          BatchEnhanced(gptResult) /\ EnhOnly
    \/ \E failure \in BatchFailures : BatchFailed(failure) /\ EnhOnly
    \/ GlobalRelationships /\ EnhOnly
    \/ EnhanceReturns /\ EnhOnly
    \/ EnhanceThrows /\ EnhOnly

InitEnhance == StoreInit /\ CreateIdle /\ ExtIdle /\ BoxIdle /\ DocIdle /\ TokIdle /\ RelIdle /\ DetIdle /\ PipeIdle /\ WorkerIdle /\ EnhInit

\* One call of extractWithGPTEnhancement after its local extraction
SpecEnhance == InitEnhance /\ [][EnhNext]_vars

(***************************************************************************)
(* C14  Enhancement failure is contained.  Whatever fails in the external  *)
(* enhancement, one batch or the whole, the result is returned, the ids of *)
(* enhancedComponents are the ids of localComponents, and the components   *)
(* of the failed part are the unenhanced local ones.                       *)
(***************************************************************************)
C14_FailureContained ==
    enhPhase = "done" =>
        /\ Ids(enhResult.enhancedComponents) = Ids(enhResult.localComponents)
        /\ enhResult.localComponents = localComponents
        /\ \A i \in 1..Len(enhResult.enhancedComponents) :
              enhResult.enhancedComponents[i].id \in failedIds
                  => \E j \in 1..Len(localComponents) :
                        enhResult.enhancedComponents[i] = localComponents[j]

\* one batch failed and another was enhanced
C14_Witness ==
    /\ enhPhase = "done"
    /\ failedIds # {}
    /\ failedIds # Ids(localComponents)
    /\ \E i \in 1..Len(enhResult.enhancedComponents) :
          \A j \in 1..Len(localComponents) :
             enhResult.enhancedComponents[i] # localComponents[j]

(***************************************************************************)
(* Extraction worker: analyzeRelationships                                 *)
(*                                                                         *)
(* A component is [id, role, boundingBox, relationships]; a relationship   *)
(* is [type, targetComponentId, confidence], confidence in thousandths.    *)
(***************************************************************************)
MaxGrouped == 3         \* components handed to analyzeRelationships

Grouped(id, role, x, y, width, height) ==
    [id |-> id, role |-> role, relationships |-> <<>>,
     boundingBox |-> [x |-> x, y |-> y, width |-> width, height |-> height]]

\* Components groupIntoComponents returns
GroupedPalette ==
    {Grouped("g1", "label", 0, 0, 80, 20),
     Grouped("g2", "input_field", 0, 30, 80, 20),
     Grouped("g3", "button", 100, 30, 60, 20),
     Grouped("g4", "container", -10, -10, 200, 100),
     Grouped("g5", "card", 1000, 1000, 50, 50),
     Grouped("g6", "text_block", 0, 0, 80, 20)}

RECURSIVE GroupedLists(_)
GroupedLists(n) ==
    IF n = 0 THEN {<<>>}
    ELSE LET shorter == GroupedLists(n - 1)
         IN shorter \cup
            {Append(l, c) : l \in {s \in shorter : Len(s) = n - 1}, c \in GroupedPalette}

GroupedResults == {l \in GroupedLists(MaxGrouped) : DistinctIds(l)}

spatialThreshold == 50

validatesDistance == 100

\* floor of the square root
RECURSIVE SqrtBetween(_, _, _)
SqrtBetween(n, lo, hi) ==
    IF hi - lo <= 1 THEN lo
    ELSE LET mid == (lo + hi) \div 2
         IN IF mid * mid <= n THEN SqrtBetween(n, mid, hi) ELSE SqrtBetween(n, lo, mid)

Isqrt(n) == SqrtBetween(n, 0, n + 1)

\* twice center2 - center1
Dx2(box1, box2) == (2 * box2.x + box2.width) - (2 * box1.x + box1.width)

Dy2(box1, box2) == (2 * box2.y + box2.height) - (2 * box1.y + box1.height)

\* the square of twice the distance of the centres
Dist2Sq(box1, box2) ==
    Dx2(box1, box2) * Dx2(box1, box2) + Dy2(box1, box2) * Dy2(box1, box2)

AbsInt(n) == IF n < 0 THEN -n ELSE n

NoRel == [rel1 |-> "none", rel2 |-> "none", confidence |-> 0]

\* Math.max(0.5, 1 - distance / (threshold * 3)), in thousandths, rounded
\* down on the distance
SpatialConfidence(box1, box2) ==
    Max(500, 1000 - (Isqrt(Dist2Sq(box1, box2)) * 1000) \div (2 * spatialThreshold * 3))

analyzeSpatialRelationship(box1, box2) ==
    IF Dist2Sq(box1, box2) > (2 * spatialThreshold * 3) * (2 * spatialThreshold * 3)
    THEN NoRel
    ELSE IF AbsInt(Dx2(box1, box2)) > AbsInt(Dy2(box1, box2))
         THEN IF Dx2(box1, box2) > 0
              THEN [rel1 |-> "left_of", rel2 |-> "right_of",
                    confidence |-> SpatialConfidence(box1, box2)]
              ELSE [rel1 |-> "right_of", rel2 |-> "left_of",
                    confidence |-> SpatialConfidence(box1, box2)]
         ELSE IF Dy2(box1, box2) > 0
              THEN [rel1 |-> "above", rel2 |-> "below",
                    confidence |-> SpatialConfidence(box1, box2)]
              ELSE [rel1 |-> "below", rel2 |-> "above",
                    confidence |-> SpatialConfidence(box1, box2)]

BoxContains(box1, box2) ==
    /\ box1.x <= box2.x
    /\ box1.y <= box2.y
    /\ box1.x + box1.width >= box2.x + box2.width
    /\ box1.y + box1.height >= box2.y + box2.height

analyzeContainment(box1, box2) ==
    IF BoxContains(box1, box2)
    THEN [rel1 |-> "contains", rel2 |-> "contained_by", confidence |-> 900]
    ELSE IF BoxContains(box2, box1)
         THEN [rel1 |-> "contained_by", rel2 |-> "contains", confidence |-> 900]
         ELSE NoRel

Rel(type, target, confidence) ==
    [type |-> type, targetComponentId |-> target, confidence |-> confidence]

\* calculateDistance(comp1.boundingBox, comp2.boundingBox) < 100
LabelNearInput(comp1, comp2) ==
    /\ comp1.role = "label"
    /\ comp2.role = "input_field"
    /\ Dist2Sq(comp1.boundingBox, comp2.boundingBox)
          < (2 * validatesDistance) * (2 * validatesDistance)

\* analyzeFunctionalRelationship: what it adds to comp1 and to comp2
FunctionalComp1(comp1, comp2) ==
    (IF LabelNearInput(comp1, comp2) THEN <<Rel("validates", comp2.id, 800)>> ELSE <<>>)
    \o (IF comp1.role = "button" /\ comp2.role = "input_field"
        THEN <<Rel("triggers", comp2.id, 700)>> ELSE <<>>)

FunctionalComp2(comp1, comp2) ==
    IF LabelNearInput(comp1, comp2) THEN <<Rel("validated_by", comp1.id, 800)>> ELSE <<>>

\* analyzeComponentPair: comp1Relations
Comp1Relations(comp1, comp2) ==
    LET spatialRel == analyzeSpatialRelationship(comp1.boundingBox, comp2.boundingBox)
        containmentRel == analyzeContainment(comp1.boundingBox, comp2.boundingBox)
    IN (IF spatialRel # NoRel
        THEN <<Rel(spatialRel.rel1, comp2.id, spatialRel.confidence)>> ELSE <<>>)
       \o (IF containmentRel # NoRel
           THEN <<Rel(containmentRel.rel1, comp2.id, containmentRel.confidence)>> ELSE <<>>)
       \o FunctionalComp1(comp1, comp2)

\* variant of Comp2Relations: the second component gets no layout relationship
Comp2RelationsNoSpatial(comp1, comp2) ==
    LET containmentRel == analyzeContainment(comp1.boundingBox, comp2.boundingBox)
    IN (IF containmentRel # NoRel
        THEN <<Rel(containmentRel.rel2, comp1.id, containmentRel.confidence)>> ELSE <<>>)
       \o FunctionalComp2(comp1, comp2)

\* analyzeComponentPair: comp2Relations
Comp2Relations(comp1, comp2) ==
    LET spatialRel == analyzeSpatialRelationship(comp1.boundingBox, comp2.boundingBox)
        containmentRel == analyzeContainment(comp1.boundingBox, comp2.boundingBox)
    IN (IF spatialRel # NoRel
        THEN <<Rel(spatialRel.rel2, comp1.id, spatialRel.confidence)>> ELSE <<>>)
       \o (IF containmentRel # NoRel
           THEN <<Rel(containmentRel.rel2, comp1.id, containmentRel.confidence)>> ELSE <<>>)
       \o FunctionalComp2(comp1, comp2)

\* the loops of analyzeRelationships, from the pair (i, j) on
RECURSIVE PairLoop(_, _, _)
PairLoop(comps, i, j) ==
    IF i > Len(comps) THEN comps
    ELSE IF j > Len(comps) THEN PairLoop(comps, i + 1, i + 2)
    ELSE PairLoop(
            [comps EXCEPT
                ![i].relationships = @ \o Comp1Relations(comps[i], comps[j]),
                ![j].relationships = @ \o Comp2Relations(comps[i], comps[j])],
            i, j + 1)

analyzeRelationships(comps) == PairLoop(comps, 1, 2)

RelInit ==
    /\ groupedComponents \in GroupedResults
    /\ componentsWithRelations = <<>>
    /\ relPhase = "grouped"

\* extractSemanticComponents, step 4
AnalyzeRelationships ==
    /\ relPhase = "grouped"
    /\ componentsWithRelations' = analyzeRelationships(groupedComponents)
    /\ relPhase' = "related"
    /\ UNCHANGED groupedComponents

RelOnly == UNCHANGED <<storeVars, docVars, pipeVars, workerVars, enhVars, detVars, tokVars, boxVars, extVars, createVars>>

RelNext == AnalyzeRelationships /\ RelOnly

InitRel == StoreInit /\ CreateIdle /\ ExtIdle /\ BoxIdle /\ DocIdle /\ TokIdle /\ EnhIdle /\ DetIdle /\ PipeIdle /\ WorkerIdle /\ RelInit

\* analyzeRelationships applied to the components of one request
SpecRel == InitRel /\ [][RelNext]_vars

(***************************************************************************)
(* C15  Relationship symmetry.  After analyzeRelationships, A carries a    *)
(* relationship of a paired type towards B exactly when B carries the      *)
(* inverse type towards A with the same confidence; the only type emitted  *)
(* without a counterpart is TRIGGERS.                                      *)
(***************************************************************************)
PairedTypes ==
    {"above", "below", "left_of", "right_of", "contains", "contained_by",
     "validates", "validated_by"}

Inverse(type) ==
    CASE type = "above" -> "below"
      [] type = "below" -> "above"
      [] type = "left_of" -> "right_of"
      [] type = "right_of" -> "left_of"
      [] type = "contains" -> "contained_by"
      [] type = "contained_by" -> "contains"
      [] type = "validates" -> "validated_by"
      [] type = "validated_by" -> "validates"

\* the relationships a carries towards b
Towards(a, b) ==
    {a.relationships[r] : r \in {q \in 1..Len(a.relationships) :
                                    a.relationships[q].targetComponentId = b.id}}

C15_RelationshipSymmetry ==
    relPhase = "related" =>
        \A i, j \in 1..Len(componentsWithRelations) :
            LET a == componentsWithRelations[i]
                b == componentsWithRelations[j]
            IN \A rel \in Towards(a, b) :
                  /\ rel.type \in PairedTypes \cup {"triggers"}
                  /\ rel.type \in PairedTypes
                        => Rel(Inverse(rel.type), a.id, rel.confidence) \in Towards(b, a)

\* a label validates an input inside a container, and a button triggers it
C15_Witness ==
    /\ relPhase = "related"
    /\ \E i, j, k \in 1..Len(componentsWithRelations) :
          LET a == componentsWithRelations[i]
              b == componentsWithRelations[j]
              c == componentsWithRelations[k]
          IN /\ Rel("validates", b.id, 800) \in Towards(a, b)
             /\ Rel("triggers", b.id, 700) \in Towards(c, b)
             /\ \E rel \in Towards(a, b) : rel.type = "above" /\ rel.confidence > 500
             /\ \E rel \in Towards(c, b) : rel.type = "right_of"

(***************************************************************************)
(* attachText on requests with grouped text                                *)
(***************************************************************************)
\* Elements of a request with text inside a rectangle, text grouped with a
\* diamond just below it, and grouped text away from every shape
AttachPalette ==
    {Raw("r1", "rectangle", 0, 0, 200, 100, 20, NoText, ""),
     Raw("t1", "text", 10, 10, 60, 20, 0, <<"L","o","g","i","n">>, ""),
     Raw("t2", "text", 10, 60, 60, 20, 0, <<"[","M","A","P","]">>, ""),
     Raw("d1", "diamond", 300, 0, 60, 60, 0, <<"m","a","p">>, "g1"),
     Raw("t3", "text", 300, -30, 60, 20, 0, <<"m","a","p">>, "g1"),
     Raw("t4", "text", 600, 600, 60, 20, 0, <<"L","o","g","i","n">>, "g1"),
     Raw("t5", "text", 300, 170, 60, 20, 0, <<"L","o","g","i","n">>, ""),
     Raw("r3", "rectangle", 300, 205, 60, 40, 0, NoText, ""),
     Raw("d2", "diamond", 300, 200, 60, 60, 0, NoText, "")}

RECURSIVE AttachLists(_)
AttachLists(n) ==
    IF n = 0 THEN {<<>>}
    ELSE LET shorter == AttachLists(n - 1)
         IN shorter \cup
            {Append(l, e) : l \in {s \in shorter : Len(s) = n - 1}, e \in AttachPalette}

AttachRequests == {l \in AttachLists(MaxElements) : DistinctIds(l)}

AttachInit ==
    /\ elements \in AttachRequests
    /\ options = [minConfidence |-> 30, enableWidgetDetection |-> TRUE, maxComponents |-> 100]
    /\ stage = "request"
    /\ normalizedGroups = <<>>
    /\ hierarchy = <<>>
    /\ textAttachments = <<>>
    /\ connectors = <<>>
    /\ roleAssignments = <<>>
    /\ widgetDetections = <<>>
    /\ components = <<>>

\* attachText as testTextAttachment calls it: the candidates are the
\* rectangles and the ellipses
Stage3Candidates ==
    /\ stage = "containers"
    /\ textAttachments' = attachText(normalizedGroups.text,
                                     normalizedGroups.rectangles \o normalizedGroups.ellipses,
                                     hierarchy)
    /\ stage' = "text"
    /\ UNCHANGED <<elements, options, normalizedGroups, hierarchy, connectors,
                   roleAssignments, widgetDetections, components>>

AttachNext ==
    \/ Stage1 /\ PipeOnly
    \/ Stage2 /\ PipeOnly
    \/ Stage3 /\ PipeOnly
    \/ Stage3Candidates /\ PipeOnly

InitAttach == StoreInit /\ CreateIdle /\ ExtIdle /\ BoxIdle /\ DocIdle /\ TokIdle /\ EnhIdle /\ RelIdle /\ DetIdle /\ AttachInit /\ WorkerIdle

\* The pipeline up to attachText
SpecAttach == InitAttach /\ [][AttachNext]_vars

(***************************************************************************)
(* C16  Text attachment totality.  attachText returns exactly one          *)
(* attachment per text element, in order, and attachedTo is null exactly   *)
(* when attachmentType is standalone.                                      *)
(***************************************************************************)
C16_AttachmentTotality ==
    stage = "text" =>
        /\ Len(textAttachments) = Len(normalizedGroups.text)
        /\ \A i \in 1..Len(textAttachments) :
              /\ textAttachments[i].textId = normalizedGroups.text[i].id
              /\ (textAttachments[i].attachedTo = NullId)
                    <=> (textAttachments[i].attachmentType = "standalone")

\* the recorded parent of two texts is the group key: one of them is the
\* title of the diamond below it, the other is standalone
C16_Witness ==
    /\ stage = "text"
    /\ \E i, j \in 1..Len(textAttachments) :
          /\ textAttachments[i].textId \in DOMAIN hierarchy.parentMap
          /\ textAttachments[j].textId \in DOMAIN hierarchy.parentMap
          /\ hierarchy.parentMap[textAttachments[i].textId] = "group-g1"
          /\ textAttachments[i].attachedTo = "d1"
          /\ textAttachments[i].attachmentType = "title"
          /\ hierarchy.parentMap[textAttachments[j].textId] = "group-g1"
          /\ textAttachments[j].attachedTo = NullId
          /\ textAttachments[j].attachmentType = "standalone"

(***************************************************************************)
(* WidgetFactoryImpl.detectWidgetFromText and the pipeline's               *)
(* detectWidgetFromText on the same texts.  Confidences are in             *)
(* thousandths.  The texts hold letters, spaces, brackets, colons and      *)
(* hyphens: no digit, no dot and no "http", so the coordinate, zoom, time  *)
(* and URL expressions of the config extractors match none of them.        *)
(***************************************************************************)
W_STYLE == <<"s","t","y","l","e">>

W_TYPE == <<"t","y","p","e">>

W_VIEW == <<"v","i","e","w">>

W_DISPLAY == <<"d","i","s","p","l","a","y">>

W_AUTOPLAY == <<"a","u","t","o","p","l","a","y">>

W_FULLSCREEN == <<"f","u","l","l","s","c","r","e","e","n">>

W_COORDINATE == <<"c","o","o","r","d","i","n","a","t","e">>

W_GOOGLE == <<"g","o","o","g","l","e">>

W_MAPS == <<"m","a","p","s">>

\* \w on the characters of the texts
IsWordChar(c) == \E i \in 1..26 : LowerChars[i] = ToLowerChar(c)

\* [:\s]* from position j: the first position it does not consume
RECURSIVE SkipColonSpace(_, _)
SkipColonSpace(str, j) ==
    IF j <= Len(str) /\ (str[j] = ":" \/ IsSpace(str[j]))
    THEN SkipColonSpace(str, j + 1) ELSE j

\* (\w+) from position j: the position after the last character it consumes
RECURSIVE WordEnd(_, _)
WordEnd(str, j) ==
    IF j <= Len(str) /\ IsWordChar(str[j]) THEN WordEnd(str, j + 1) ELSE j

\* /(?:k1|k2)[:\s]*(\w+)/i matches with the key at position i
KeyWordAt(str, i, keys) ==
    \E k \in keys :
        /\ MatchAtI(str, i, k)
        /\ LET start == SkipColonSpace(str, i + Len(k))
           IN start <= Len(str) /\ IsWordChar(str[start])

\* text.match(/(?:k1|k2)[:\s]*(\w+)/i)[1].toLowerCase(), <<>> without a match
CapturedWord(str, keys) ==
    IF \E i \in 1..Len(str) : KeyWordAt(str, i, keys)
    THEN LET i == CHOOSE n \in 1..Len(str) :
                     /\ KeyWordAt(str, n, keys)
                     /\ \A m \in 1..(n - 1) : ~KeyWordAt(str, m, keys)
             k == CHOOSE key \in keys : MatchAtI(str, i, key)
             start == SkipColonSpace(str, i + Len(k))
         IN ToLowerCase(SubSeq(str, start, WordEnd(str, start) - 1))
    ELSE <<>>

MapStyles == {<<"r","o","a","d","m","a","p">>, <<"s","a","t","e","l","l","i","t","e">>, <<"h","y","b","r","i","d">>, <<"t","e","r","r","a","i","n">>}

ChartTypes == {<<"l","i","n","e">>, <<"b","a","r">>, <<"p","i","e">>, <<"s","c","a","t","t","e","r">>, <<"a","r","e","a">>}

CalendarViews == {<<"m","o","n","t","h">>, <<"w","e","e","k">>, <<"d","a","y">>}

\* extractPatternConfig(text, type) is not null
extractPatternConfig(text, type) ==
    CASE type = "map" -> CapturedWord(text, {W_STYLE, W_TYPE}) \in MapStyles
      [] type = "video" -> MatchKeyword(text, {W_AUTOPLAY})
      [] type = "iframe" -> MatchKeyword(text, {W_FULLSCREEN})
      [] type = "chart" -> CapturedWord(text, {W_TYPE, W_CHART}) \in ChartTypes
      [] type = "calendar" -> CapturedWord(text, {W_VIEW, W_DISPLAY}) \in CalendarViews

\* google\s*maps? ends at position e
GoogleMapsEndsAt(str, e) ==
    \E g \in 1..Len(str), m \in 1..Len(str) :
        /\ MatchAtI(str, g, W_GOOGLE)
        /\ g + Len(W_GOOGLE) <= m
        /\ AllSpaces(str, g + Len(W_GOOGLE), m - 1)
        /\ \/ MatchAtI(str, m, W_MAP) /\ e = m + Len(W_MAP) - 1
           \/ MatchAtI(str, m, W_MAPS) /\ e = m + Len(W_MAPS) - 1

\* a word of words ends at position e
WordEndsAt(str, e, words) ==
    \E w \in words : e - Len(w) + 1 >= 1 /\ MatchAtI(str, e - Len(w) + 1, w)

\* \s*[:\-]\s*(.+) from position j
SeparatorAndRest(str, j) ==
    \E a \in j..Len(str) :
        /\ AllSpaces(str, j, a - 1)
        /\ str[a] = ":" \/ str[a] = "-"
        /\ a < Len(str)

\* /(?:map|google\s*maps?|location|coordinates?)\s*[:\-]\s*(.+)/i
MatchMapKeyword(str) ==
    \E e \in 1..Len(str) :
        /\ \/ WordEndsAt(str, e, {W_MAP, W_LOCATION, W_COORDINATE,
                                  W_COORDINATE \o <<"s">>})
           \/ GoogleMapsEndsAt(str, e)
        /\ SeparatorAndRest(str, e + 1)

\* /(?:w1|w2|...)(?:\s*[:\-]\s*)?(.+)/i: a word followed by one character
MatchKeywordRest(str, words) ==
    \E e \in 1..Len(str) : WordEndsAt(str, e, words) /\ e < Len(str)

\* WIDGET_PATTERNS, in the order of the source
FactoryPatterns ==
    << [kind |-> "bracket", tag |-> W_MAP, words |-> {}, type |-> "map", confidence |-> 950],
       [kind |-> "mapkeyword", tag |-> <<>>, words |-> {}, type |-> "map", confidence |-> 700],
       [kind |-> "bracket", tag |-> W_VIDEO, words |-> {}, type |-> "video", confidence |-> 950],
       [kind |-> "rest", tag |-> <<>>, words |-> {W_YOUTUBE, W_VIMEO, W_VIDEO},
        type |-> "video", confidence |-> 800],
       [kind |-> "bracket", tag |-> W_IFRAME, words |-> {}, type |-> "iframe", confidence |-> 900],
       [kind |-> "rest", tag |-> <<>>, words |-> {W_EMBED, W_IFRAME, W_WEBSITE},
        type |-> "iframe", confidence |-> 700],
       [kind |-> "bracket", tag |-> W_CHART, words |-> {}, type |-> "chart", confidence |-> 900],
       [kind |-> "rest", tag |-> <<>>, words |-> {W_CHART, W_GRAPH, W_PLOT, W_ANALYTICS},
        type |-> "chart", confidence |-> 750],
       [kind |-> "bracket", tag |-> W_CALENDAR, words |-> {}, type |-> "calendar",
        confidence |-> 900],
       [kind |-> "rest", tag |-> <<>>, words |-> {W_CALENDAR, W_SCHEDULE, W_EVENT},
        type |-> "calendar", confidence |-> 750] >>

\* cleanText.match(pattern.pattern)
FactoryPatternTest(pat, text) ==
    CASE pat.kind = "bracket" -> MatchBracket(text, pat.tag)
      [] pat.kind = "mapkeyword" -> MatchMapKeyword(text)
      [] pat.kind = "rest" -> MatchKeywordRest(text, pat.words)

\* pattern.confidence * (extractedConfig ? 1.1 : 1.0)
BoostedConfidence(pat, text) ==
    IF extractPatternConfig(text, pat.type) THEN (pat.confidence * 11) \div 10
    ELSE pat.confidence

NoMatch == [index |-> 0, confidence |-> 0]

\* the loop over WIDGET_PATTERNS from pattern i on; best is bestMatch
RECURSIVE BestMatchLoop(_, _, _)
BestMatchLoop(text, i, best) ==
    IF i > Len(FactoryPatterns) THEN best
    ELSE IF /\ FactoryPatternTest(FactoryPatterns[i], text)
            /\ \/ best = NoMatch
               \/ BoostedConfidence(FactoryPatterns[i], text) > best.confidence
         THEN BestMatchLoop(text, i + 1,
                 [index |-> i,
                  confidence |-> Min(BoostedConfidence(FactoryPatterns[i], text), 1000)])
         ELSE BestMatchLoop(text, i + 1, best)

\* WidgetFactoryImpl.detectWidgetFromText
factoryDetectWidgetFromText(text) ==
    IF text = <<>> THEN NoDetection
    ELSE LET bestMatch == BestMatchLoop(Trim(text), 1, NoMatch)
         IN IF bestMatch # NoMatch
            THEN [isWidget |-> TRUE, type |-> FactoryPatterns[bestMatch.index].type,
                  confidence |-> bestMatch.confidence, detectionMethod |-> "pattern"]
            ELSE NoDetection

\* The texts: before \o keyword \o separator \o rest \o after
TextsBefore == {<<>>, <<"[">>, <<" ">>}

TextsKeyword ==
    {<<"M","A","P">>, <<"C","H","A","R","T">>, <<"R","e","g","u","l","a","r"," ","b","u","t","t","o","n"," ","t","e","x","t">>, <<"V","i","d","e","o">>, <<"g","o","o","g","l","e"," ","m","a","p","s">>, <<"e","v","e","n","t","s">>}

TextsSeparator == {<<>>, <<":">>, <<":", " ">>, <<" ", "-", " ">>}

TextsRest ==
    {<<>>, <<"S","a","n"," ","F","r","a","n","c","i","s","c","o">>, <<"s","a","l","e","s"," ","d","a","t","a">>, <<"t","y","p","e"," ","b","a","r">>, <<"s","t","y","l","e",":"," ","s","a","t","e","l","l","i","t","e">>, <<"[","C","H","A","R","T","]">>}

TextsAfter == {<<>>, <<"]">>}

DetectionTexts ==
    {b \o k \o p \o r \o a : b \in TextsBefore, k \in TextsKeyword, p \in TextsSeparator,
                               r \in TextsRest, a \in TextsAfter}

DetInit ==
    /\ detectText \in DetectionTexts
    /\ detector = "none"
    /\ detectionResult = NoDetection

\* detectWidgetFromElement: detectWidgetFromText(element.text.trim())
PipelineDetect ==
    /\ detector = "none"
    /\ detectionResult' = [detectWidgetFromText(Trim(detectText)) EXCEPT !.confidence = 10 * @]
    /\ detector' = "pipeline"
    /\ UNCHANGED detectText

\* widgetFactory.detectWidgetFromText(text)
FactoryDetect ==
    /\ detector = "none"
    /\ detectionResult' = factoryDetectWidgetFromText(detectText)
    /\ detector' = "factory"
    /\ UNCHANGED detectText

DetOnly == UNCHANGED <<storeVars, docVars, pipeVars, workerVars, enhVars, relVars, tokVars, boxVars, extVars, createVars>>

DetNext ==
    \/ PipelineDetect /\ DetOnly
    \/ FactoryDetect /\ DetOnly

InitDet == StoreInit /\ CreateIdle /\ ExtIdle /\ BoxIdle /\ DocIdle /\ TokIdle /\ EnhIdle /\ RelIdle /\ PipeIdle /\ WorkerIdle /\ DetInit

\* One call of one of the two detectors on a text
SpecDet == InitDet /\ [][DetNext]_vars

(***************************************************************************)
(* C17  Pattern detection literals.  Both detectors return a MAP widget    *)
(* with confidence 0.95 for '[MAP: San Francisco]', a CHART widget with    *)
(* confidence 0.8 for 'CHART: sales data', and no widget for 'Regular      *)
(* button text'.                                                           *)
(* The factory has no /^CHART\s*:/ pattern: its chart keyword pattern      *)
(* gives 'CHART: sales data' the confidence 0.75.                          *)
(***************************************************************************)
MapLiteral == <<"[","M","A","P",":"," ","S","a","n"," ","F","r","a","n","c","i","s","c","o","]">>

ChartLiteral == <<"C","H","A","R","T",":"," ","s","a","l","e","s"," ","d","a","t","a">>

RegularLiteral == <<"R","e","g","u","l","a","r"," ","b","u","t","t","o","n"," ","t","e","x","t">>

C17_DetectionLiterals ==
    detector # "none" =>
        /\ detectText = MapLiteral =>
              detectionResult.isWidget /\ detectionResult.type = "map" /\ detectionResult.confidence = 950
        /\ detectText = ChartLiteral =>
              detectionResult.isWidget /\ detectionResult.type = "chart" /\ detectionResult.confidence = 800
        /\ detectText = RegularLiteral => ~detectionResult.isWidget

(***************************************************************************)
(* Token analysis: analyzeTokenUsage of lib/tokenAnalyzer, its variant     *)
(* with the compressed component rendering, and calculateTokenOptimization *)
(* of the extraction worker.  A rendering is modelled by its length in     *)
(* characters; numbers are printed in decimal; confidences are in          *)
(* hundredths.                                                             *)
(***************************************************************************)
MaxTokElements == 2

MaxTokComponents == 3

\* the length of String(n) for an integer n
RECURSIVE Digits(_)
Digits(n) ==
    IF n < 0 THEN 1 + Digits(-n)
    ELSE IF n < 10 THEN 1 ELSE 1 + Digits(n \div 10)

\* parts.join(sep).length for parts of the given lengths
RECURSIVE SumLen(_)
SumLen(lens) == IF lens = <<>> THEN 0 ELSE Head(lens) + SumLen(Tail(lens))

JoinLen(lens, sep) ==
    IF lens = <<>> THEN 0 ELSE SumLen(lens) + sep * (Len(lens) - 1)

TokElementPalette ==
    << [id |-> <<"e","1">>, type |-> <<"r","e","c","t","a","n","g","l","e">>, x |-> 0, y |-> 0, width |-> 100, height |-> 40,
        strokeColor |-> <<"#","0","0","0">>, backgroundColor |-> <<"#","f","f","f">>, strokeWidth |-> 1,
        opacity |-> 100, text |-> <<"O","K">>, angle |-> 0],
       [id |-> <<"e","2">>, type |-> <<"t","e","x","t">>, x |-> 10, y |-> 12, width |-> 60, height |-> 20,
        strokeColor |-> <<"#","0","0","0">>, backgroundColor |-> <<"t","r","a","n","s","p","a","r","e","n","t">>, strokeWidth |-> 1,
        opacity |-> 100, text |-> <<>>, angle |-> 0],
       [id |-> <<"e","3">>, type |-> <<"a","r","r","o","w">>, x |-> -5, y |-> 200, width |-> 80, height |-> 0,
        strokeColor |-> <<"#","1","e","1","e","1","e">>, backgroundColor |-> <<"t","r","a","n","s","p","a","r","e","n","t">>, strokeWidth |-> 2,
        opacity |-> 50, text |-> <<>>, angle |-> 90] >>

TokRelationship(type, target, confidence) ==
    [type |-> type, targetComponentId |-> target, confidence |-> confidence]

TokComponentPalette ==
    << [id |-> <<"c","o","m","p","o","n","e","n","t","_","1">>, role |-> <<"b","u","t","t","o","n">>, confidence |-> 90,
        boundingBox |-> [x |-> 0, y |-> 0, width |-> 100, height |-> 40],
        elementIds |-> << <<"e","1">> >>, textContent |-> <<"O","K">>, isClickable |-> TRUE,
        relationships |-> <<>>, semanticHints |-> <<>>],
       [id |-> <<"c","o","m","p","o","n","e","n","t","_","2">>, role |-> <<"i","n","p","u","t","_","f","i","e","l","d">>, confidence |-> 75,
        boundingBox |-> [x |-> 120, y |-> 0, width |-> 200, height |-> 40],
        elementIds |-> << <<"e","2">>, <<"e","3">> >>, textContent |-> <<>>, isClickable |-> FALSE,
        relationships |-> << TokRelationship(<<"r","i","g","h","t","_","o","f">>, <<"c","o","m","p","o","n","e","n","t","_","1">>, 80),
                             TokRelationship(<<"n","e","a","r">>, <<"c","o","m","p","o","n","e","n","t","_","3">>, 60) >>,
        semanticHints |-> << <<"f","o","r","m"," ","i","n","p","u","t">> >>],
       [id |-> <<"c","o","m","p","o","n","e","n","t","_","3">>, role |-> <<"t","e","x","t","_","b","l","o","c","k">>, confidence |-> 100,
        boundingBox |-> [x |-> 0, y |-> 100, width |-> 400, height |-> 300],
        elementIds |-> << <<"e","1">>, <<"e","2">>, <<"e","3">> >>,
        textContent |-> <<"L","o","r","e","m"," ","i","p","s","u","m"," ","d","o","l","o","r"," ","s","i","t"," ","a","m","e","t",","," ","c","o","n","s","e","c","t","e","t","u","r"," ","a","d","i","p","i","s","c","i","n","g"," ","e","l","i","t",","," ","s","e","d"," ","d","o"," ","e","i","u","s","m","o","d">>,
        isClickable |-> FALSE,
        relationships |-> << TokRelationship(<<"c","o","n","t","a","i","n","s">>, <<"c","o","m","p","o","n","e","n","t","_","1">>, 90),
                             TokRelationship(<<"c","o","n","t","a","i","n","s">>, <<"c","o","m","p","o","n","e","n","t","_","2">>, 90),
                             TokRelationship(<<"a","b","o","v","e">>, <<"c","o","m","p","o","n","e","n","t","_","2">>, 80) >>,
        semanticHints |-> << <<"l","o","n","g"," ","p","a","r","a","g","r","a","p","h"," ","o","f"," ","d","e","s","c","r","i","p","t","i","v","e"," ","b","o","d","y"," ","t","e","x","t">>, <<"t","e","x","t">> >>] >>

\* The lists of distinct entries of a palette, up to a length
DistinctLists(palette, max) ==
    {[i \in 1..Len(ix) |-> palette[ix[i]]] :
        ix \in {s \in UNION {[1..n -> 1..Len(palette)] : n \in 0..max} :
                   \A i, j \in 1..Len(s) : i # j => s[i] # s[j]}}

\* calculateRawElementTokens: the length of one element's rendering
RawElementLen(element) ==
    JoinLen(<< 8 + Len(element.id) + 1,
               8 + Len(element.type),
               13 + Digits(element.x) + 2 + Digits(element.y) + 1,
               8 + Digits(element.width) + 1 + Digits(element.height),
               16 + Len(element.strokeColor) + 7 + Len(element.backgroundColor),
               26 + Digits(element.strokeWidth) + 10 + Digits(element.opacity) >>
            \o (IF element.text # <<>> THEN << 9 + Len(element.text) + 1 >> ELSE <<>>)
            \o (IF element.angle # 0 THEN << 12 + Digits(element.angle) + 1 >> ELSE <<>>),
            1)

\* Math.ceil(length / 4)
CeilQuarter(length) == (length + 3) \div 4

\* Math.ceil(length / 3.5)
CeilThreeAndHalf(length) == (2 * length + 6) \div 7

\* calculateRawElementTokens(elements).tokens
calculateRawElementTokens(elems) ==
    CeilQuarter(JoinLen([i \in 1..Len(elems) |-> RawElementLen(elems[i])], 2))

\* (confidence * 100).toFixed(1) for a confidence in hundredths
ToFixed1Len(confidence) == Digits(confidence) + 2

\* calculateSemanticComponentTokens of lib/tokenAnalyzer: one component
SemanticComponentLen(component) ==
    JoinLen(<< 10 + Len(component.id) + 1,
               8 + Len(component.role),
               14 + ToFixed1Len(component.confidence) + 1,
               11 + Digits(component.boundingBox.x) + 2 + Digits(component.boundingBox.y) + 2
                  + Digits(component.boundingBox.width) + 1
                  + Digits(component.boundingBox.height),
               13 + JoinLen([i \in 1..Len(component.elementIds) |->
                                Len(component.elementIds[i])], 2) + 1 >>
            \o (IF component.textContent # <<>>
                THEN << 9 + Len(component.textContent) + 1 >> ELSE <<>>)
            \o (IF component.isClickable THEN << 24 >> ELSE <<>>)
            \o (IF Len(component.relationships) > 0
                THEN << 13 + JoinLen([i \in 1..Len(component.relationships) |->
                                 Len(component.relationships[i].type) + 1
                                 + Len(component.relationships[i].targetComponentId)], 2) >>
                ELSE <<>>)
            \o (IF Len(component.semanticHints) > 0
                THEN << 9 + JoinLen([i \in 1..Len(component.semanticHints) |->
                                Len(component.semanticHints[i])], 2) >>
                ELSE <<>>),
            1)

\* calculateSemanticComponentTokens(components).tokens of lib/tokenAnalyzer
calculateSemanticComponentTokens(comps) ==
    CeilQuarter(JoinLen([i \in 1..Len(comps) |-> SemanticComponentLen(comps[i])], 2))

\* rel.type.split('_')[0].length
RECURSIVE FirstSegmentLen(_)
FirstSegmentLen(str) ==
    IF str = <<>> \/ Head(str) = "_" THEN 0 ELSE 1 + FirstSegmentLen(Tail(str))

\* relationships.filter(rel => rel.confidence > 0.7)
RECURSIVE HighConfRels(_)
HighConfRels(rels) ==
    IF rels = <<>> THEN <<>>
    ELSE IF Head(rels).confidence > 70 THEN <<Head(rels)>> \o HighConfRels(Tail(rels))
    ELSE HighConfRels(Tail(rels))

\* the compressed rendering of one component
CompactComponentLen(component) ==
    LET highConfRels == SubSeq(HighConfRels(component.relationships), 1,
                               Min(2, Len(HighConfRels(component.relationships))))
    IN JoinLen(<< Len(component.role) >>
               \o (IF component.textContent # <<>>
                   THEN << 1 + Len(component.textContent) + 1 >> ELSE <<>>)
               \o << 2 + Digits(component.boundingBox.x) + 1
                     + Digits(component.boundingBox.y) + 1 >>
               \o (IF Len(component.relationships) > 0 /\ Len(highConfRels) > 0
                   THEN << JoinLen([i \in 1..Len(highConfRels) |->
                               FirstSegmentLen(highConfRels[i].type) + 1
                               + Min(4, Len(highConfRels[i].targetComponentId))], 1) >>
                   ELSE <<>>)
               \o (IF /\ Len(component.semanticHints) > 0
                      /\ component.semanticHints[1] # <<>>
                      /\ Len(component.semanticHints[1]) < 30
                   THEN << Len(component.semanticHints[1]) >> ELSE <<>>),
               1)

\* calculateSemanticComponentTokens(components).tokens, compressed rendering
calculateCompactComponentTokens(comps) ==
    CeilThreeAndHalf(
        JoinLen([i \in 1..Len(comps) |-> CompactComponentLen(comps[i])], 2))

\* raw > 0 ? ((raw - compact) / raw) * 100 : 0
Percentage(raw, compact) ==
    IF raw > 0 THEN [num |-> (raw - compact) * 100, den |-> raw] ELSE ZeroPercent

\* Math.max(0, percentage)
MaxZero(percentage) == IF percentage.num < 0 THEN ZeroPercent ELSE percentage

\* calculateTokenOptimization: optimizedTokenCount
RECURSIVE optimizedTokenCount(_)
optimizedTokenCount(comps) ==
    IF comps = <<>> THEN 0
    ELSE optimizedTokenCount(SubSeq(comps, 1, Len(comps) - 1))
         + 30 + Len(comps[Len(comps)].relationships) * 10
         + (IF comps[Len(comps)].textContent # <<>>
            THEN CeilQuarter(Len(comps[Len(comps)].textContent)) ELSE 0)

TokInit ==
    /\ analysisElements \in DistinctLists(TokElementPalette, MaxTokElements)
    /\ analysisComponents \in DistinctLists(TokComponentPalette, MaxTokComponents)
    /\ estimator = "none"
    /\ tokenAnalysis = NoAnalysis

\* analyzeTokenUsage of lib/tokenAnalyzer
AnalyzeTokenUsage ==
    /\ estimator = "none"
    /\ LET raw == calculateRawElementTokens(analysisElements)
           compact == calculateSemanticComponentTokens(analysisComponents)
       IN tokenAnalysis' = [raw |-> raw, compact |-> compact,
                            percentage |-> Percentage(raw, compact)]
    /\ estimator' = "analyzeTokenUsage"
    /\ UNCHANGED <<analysisElements, analysisComponents>>

\* analyzeTokenUsage with the compressed component rendering
AnalyzeTokenUsageCompact ==
    /\ estimator = "none"
    /\ LET raw == calculateRawElementTokens(analysisElements)
           compact == calculateCompactComponentTokens(analysisComponents)
       IN tokenAnalysis' = [raw |-> raw, compact |-> compact,
                            percentage |-> Percentage(raw, compact)]
    /\ estimator' = "analyzeTokenUsageCompact"
    /\ UNCHANGED <<analysisElements, analysisComponents>>

\* calculateTokenOptimization of the extraction worker
CalculateTokenOptimization ==
    /\ estimator = "none"
    /\ LET originalTokenCount == Len(analysisElements) * 50
           optimized == optimizedTokenCount(analysisComponents)
       IN tokenAnalysis' = [raw |-> originalTokenCount, compact |-> optimized,
                            percentage |-> MaxZero(Percentage(originalTokenCount, optimized))]
    /\ estimator' = "calculateTokenOptimization"
    /\ UNCHANGED <<analysisElements, analysisComponents>>

TokOnly == UNCHANGED <<storeVars, docVars, pipeVars, workerVars, enhVars, relVars, detVars, boxVars, extVars, createVars>>

TokNext ==
    \/ AnalyzeTokenUsage /\ TokOnly
    \/ AnalyzeTokenUsageCompact /\ TokOnly
    \/ CalculateTokenOptimization /\ TokOnly

InitTok == StoreInit /\ CreateIdle /\ ExtIdle /\ BoxIdle /\ DocIdle /\ EnhIdle /\ RelIdle /\ DetIdle /\ PipeIdle /\ WorkerIdle /\ TokInit

\* One call of one of the token estimators on an element list and a component list
SpecTok == InitTok /\ [][TokNext]_vars

(***************************************************************************)
(* C18  The reduction percentage is floored at 0: it equals                *)
(* (raw - compact) / raw * 100 when the raw estimate is at least the       *)
(* compact estimate, is 0 when the compact estimate exceeds the raw        *)
(* estimate, and is never negative.                                        *)
(* analyzeTokenUsage reports the quotient without a floor.                 *)
(***************************************************************************)
C18_ReductionFloored ==
    estimator # "none" =>
        LET raw == tokenAnalysis.raw
            compact == tokenAnalysis.compact
            percentage == tokenAnalysis.percentage
        IN /\ percentage.num >= 0
           /\ compact > raw => percentage.num = 0
           /\ (raw >= compact /\ raw > 0) =>
                 percentage.num * raw = (raw - compact) * 100 * percentage.den

(***************************************************************************)
(* calculateBoundingBox with rotation.  An angle is given by its cosine    *)
(* and sine as fractions cos/den and sin/den with cos^2 + sin^2 = den^2,   *)
(* so the rotation is computed exactly.  The box returned carries its      *)
(* scale: a length is field/scale, the area is area/scale^2.               *)
(***************************************************************************)
MaxSide == 6

\* the angles whose cosine and sine are multiples of 1/5: 0, 90, 180 and 270
\* degrees and the eight angles of the 3-4-5 triangle
Angles ==
    {a \in [cos : -5..5, sin : -5..5, den : {5}] :
        a.cos * a.cos + a.sin * a.sin = a.den * a.den}

\* element.angle is 0
ZeroAngle(angle) == angle.sin = 0 /\ angle.cos = angle.den

\* the angle is 0, 90, 180 or 270 degrees
RightAngle(angle) == angle.sin = 0 \/ angle.cos = 0

MinOf(set) == CHOOSE m \in set : \A n \in set : m <= n

MaxOf(set) == CHOOSE m \in set : \A n \in set : m >= n

\* a corner rotated, times angle.den, with the sine left out of y (variant)
RotatedCornerNoSine(corner, angle) ==
    [x |-> corner.x * angle.cos - corner.y * angle.sin,
     y |-> corner.y * angle.cos]

\* corner => ({x: corner.x * cos - corner.y * sin, y: corner.x * sin + corner.y * cos}),
\* times angle.den
RotatedCorner(corner, angle) ==
    [x |-> corner.x * angle.cos - corner.y * angle.sin,
     y |-> corner.x * angle.sin + corner.y * angle.cos]

\* calculateBoundingBox(element)
calculateBoundingBoxRotated(element) ==
    IF ~ZeroAngle(element.angle)
    THEN LET corners == {[x |-> 0, y |-> 0], [x |-> element.width, y |-> 0],
                         [x |-> element.width, y |-> element.height],
                         [x |-> 0, y |-> element.height]}
             rotatedCorners == {RotatedCorner(c, element.angle) : c \in corners}
             minX == MinOf({c.x : c \in rotatedCorners})
             maxX == MaxOf({c.x : c \in rotatedCorners})
             minY == MinOf({c.y : c \in rotatedCorners})
             maxY == MaxOf({c.y : c \in rotatedCorners})
         IN [x |-> element.x * element.angle.den + minX,
             y |-> element.y * element.angle.den + minY,
             width |-> maxX - minX, height |-> maxY - minY,
             area |-> (maxX - minX) * (maxY - minY), scale |-> element.angle.den]
    ELSE [x |-> element.x, y |-> element.y, width |-> element.width,
          height |-> element.height, area |-> element.width * element.height, scale |-> 1]

BoxPositions == {0, 7}

BoxInit ==
    /\ boxElement \in [x : BoxPositions, y : BoxPositions, width : 1..MaxSide,
                       height : 1..MaxSide, angle : Angles]
    /\ boundingBox = NoBox

\* normalizeElement: boundingBox = calculateBoundingBox(element)
CalculateBoundingBox ==
    /\ boundingBox = NoBox
    /\ boundingBox' = calculateBoundingBoxRotated(boxElement)
    /\ UNCHANGED boxElement

BoxOnly == UNCHANGED <<storeVars, docVars, pipeVars, workerVars, enhVars, relVars, detVars, tokVars, extVars, createVars>>

BoxNext == CalculateBoundingBox /\ BoxOnly

InitBox == StoreInit /\ CreateIdle /\ ExtIdle /\ DocIdle /\ TokIdle /\ EnhIdle /\ RelIdle /\ DetIdle /\ PipeIdle /\ WorkerIdle /\ BoxInit

\* One call of calculateBoundingBox on an element
SpecBox == InitBox /\ [][BoxNext]_vars

(***************************************************************************)
(* C21  Rotated bounding box area.  For every shape with positive width    *)
(* and height and every angle, the area of the box calculateBoundingBox    *)
(* returns is at least width * height, and equals it exactly when the      *)
(* angle is 0, 90, 180 or 270 degrees.                                     *)
(***************************************************************************)
UnrotatedArea == boxElement.width * boxElement.height * boundingBox.scale * boundingBox.scale

Normalized(i) == normalizeElement(elements[i], i - 1)

\* the positions of the containers that contain the element at position i
ContainersOf(i) ==
    {j \in 1..Len(elements) :
        /\ Normalized(j).type \in {"rectangle", "ellipse"}
        /\ Normalized(j).boundingBox.area > sizeThreshold
        /\ Normalized(j).id # Normalized(i).id
        /\ isContained(Normalized(i), Normalized(j))}

C22_ParentRule ==
    HasHierarchy =>
        \A i \in 1..Len(elements) :
            LET id == Normalized(i).id
            IN IF Normalized(i).groupId # ""
               THEN /\ id \in DOMAIN hierarchy.parentMap
                    /\ hierarchy.parentMap[id] = GroupKey(Normalized(i).groupId)
               ELSE IF ContainersOf(i) = {}
               THEN id \notin DOMAIN hierarchy.parentMap
               ELSE /\ id \in DOMAIN hierarchy.parentMap
                    /\ hierarchy.parentMap[id] = Normalized(MinOf(ContainersOf(i))).id

(***************************************************************************)
(* C23  First match wins in widget detection.  For every text, the type    *)
(* and confidence a detector reports are those of the first pattern of its *)
(* table that matches the text, also when a later pattern matches too.     *)
(* The factory keeps the match of highest confidence instead: for          *)
(* 'MAP: [CHART]' its first matching pattern is the map keyword pattern    *)
(* (0.7) and it reports chart (0.9).                                       *)
(***************************************************************************)
\* the position of the first pattern of the pipeline's table matching text, 0 if none
FirstPipelineMatch(text) ==
    IF \E i \in 1..Len(WidgetPatterns) : PatternTest(WidgetPatterns[i], text)
    THEN MinOf({i \in 1..Len(WidgetPatterns) : PatternTest(WidgetPatterns[i], text)})
    ELSE 0

\* the position of the first pattern of WIDGET_PATTERNS matching text, 0 if none
FirstFactoryMatch(text) ==
    IF \E i \in 1..Len(FactoryPatterns) : FactoryPatternTest(FactoryPatterns[i], text)
    THEN MinOf({i \in 1..Len(FactoryPatterns) : FactoryPatternTest(FactoryPatterns[i], text)})
    ELSE 0

C23_FirstMatchWins ==
    LET text == Trim(detectText)
    IN /\ detector = "pipeline" =>
             IF FirstPipelineMatch(text) = 0 THEN ~detectionResult.isWidget
             ELSE /\ detectionResult.isWidget
                  /\ detectionResult.type = WidgetPatterns[FirstPipelineMatch(text)].type
                  /\ detectionResult.confidence =
                         10 * WidgetPatterns[FirstPipelineMatch(text)].confidence
       /\ detector = "factory" =>
             IF FirstFactoryMatch(text) = 0 THEN ~detectionResult.isWidget
             ELSE /\ detectionResult.isWidget
                  /\ detectionResult.type = FactoryPatterns[FirstFactoryMatch(text)].type
                  /\ detectionResult.confidence \in
                         {FactoryPatterns[FirstFactoryMatch(text)].confidence,
                          Min(BoostedConfidence(FactoryPatterns[FirstFactoryMatch(text)], text),
                              1000)}

(***************************************************************************)
(* C24  Nearest shape wins for positional titles.  A text element without  *)
(* a parent that has several shapes satisfying the positional rule is      *)
(* attached as title, with confidence 0.8, to the one with the smallest    *)
(* vertical gap, whatever the order of the candidate list.                 *)
(* findTextAttachment returns at the first candidate that satisfies the    *)
(* rule: a rectangle 15 below the text is taken before a diamond 10 below. *)
(***************************************************************************)
\* distanceAbove
VerticalGap(textElement, element) ==
    element.boundingBox.y - (textElement.boundingBox.y + textElement.boundingBox.height)

NearestTitle(candidates) ==
    \A i \in 1..Len(normalizedGroups.text) :
        LET textElement == normalizedGroups.text[i]
            matching == {n \in 1..Len(candidates) : IsAbove(textElement, candidates[n])}
        IN (textElement.id \notin DOMAIN hierarchy.parentMap /\ matching # {}) =>
              /\ textAttachments'[i].attachmentType = "title"
              /\ textAttachments'[i].confidence = 80
              /\ \E n \in matching :
                    /\ textAttachments'[i].attachedTo = candidates[n].id
                    /\ \A m \in matching :
                          VerticalGap(textElement, candidates[n])
                              <= VerticalGap(textElement, candidates[m])

C24_NearestShapeWins ==
    [][/\ Stage3 => NearestTitle(Shapes(normalizedGroups))
       /\ Stage3Candidates =>
             NearestTitle(normalizedGroups.rectangles \o normalizedGroups.ellipses)]_vars

(***************************************************************************)
(* C25  Functional relationships do not depend on component order.  For    *)
(* any two components, a LABEL within 100 units of an INPUT_FIELD carries  *)
(* VALIDATES and the input VALIDATED_BY, and a BUTTON carries TRIGGERS     *)
(* towards an INPUT_FIELD, whichever of the two comes first in the list.   *)
(* analyzeFunctionalRelationship tests the roles of (comp1, comp2) in list *)
(* order only: an input listed before its label gets nothing.              *)
(***************************************************************************)
\* the same pair of roles and distance, read in either order
LabelAndInputNear(a, b) ==
    /\ a.role = "label"
    /\ b.role = "input_field"
    /\ Dist2Sq(a.boundingBox, b.boundingBox)
          < (2 * validatesDistance) * (2 * validatesDistance)

C25_FunctionalOrderFree ==
    relPhase = "related" =>
        \A i, j \in 1..Len(componentsWithRelations) :
            LET a == componentsWithRelations[i]
                b == componentsWithRelations[j]
            IN /\ LabelAndInputNear(a, b) =>
                     /\ Rel("validates", b.id, 800) \in Towards(a, b)
                     /\ Rel("validated_by", a.id, 800) \in Towards(b, a)
               /\ (a.role = "button" /\ b.role = "input_field") =>
                     Rel("triggers", b.id, 700) \in Towards(a, b)

(***************************************************************************)
(* Extraction worker: extractSemanticComponents, steps 1 to 5.             *)
(*                                                                         *)
(* Element confidences are in hundredths.  A component's confidence is the *)
(* fraction num/den of hundredths, its id is the signature                 *)
(* generateComponentId hashes (the set of type-x-y triples of its          *)
(* elements).                                                              *)
(***************************************************************************)
MaxWorkerElements == 3

WorkerElement(id, type, x, y, width, height, text, filled) ==
    [id |-> id, type |-> type, x |-> x, y |-> y, width |-> width, height |-> height,
     text |-> text, strokeWidth |-> 1, filled |-> filled]

WorkerPalette ==
    << WorkerElement("w1", "text", 0, 0, 80, 20, <<"E","m","a","i","l">>, FALSE),
       WorkerElement("w2", "text", 0, 10, 80, 20, <<"E","n","t","e","r"," ","n","a","m","e">>, FALSE),
       WorkerElement("w3", "text", 10, 20, 80, 20, <<"N","a","m","e">>, FALSE),
       WorkerElement("w4", "rectangle", 0, 40, 100, 100, <<>>, FALSE),
       WorkerElement("w5", "rectangle", 200, 0, 120, 40, <<"C","l","i","c","k">>, TRUE) >>

\* options.minConfidence: the manager's default and a caller's stricter value
WorkerOptionSets == {[minConfidence |-> 30], [minConfidence |-> 60]}

\* text.includes(w) for one of the words
IncludesAny(text, words) == \E w \in words : Includes(ToLowerCase(text), w)

classifyElementRole(element) ==
    IF element.type = "text"
    THEN IF IncludesAny(element.text, {<<"b","u","t","t","o","n">>, <<"c","l","i","c","k">>, <<"s","u","b","m","i","t">>}) THEN "button"
         ELSE IF IncludesAny(element.text, {<<"t","i","t","l","e">>, <<"h","e","a","d","i","n","g">>}) THEN "title"
         ELSE IF IncludesAny(element.text, {<<"i","n","p","u","t">>, <<"e","n","t","e","r">>, <<"t","y","p","e">>}) THEN "input_field"
         ELSE IF IncludesAny(element.text, {<<"m","e","n","u">>, <<"n","a","v","i","g","a","t","i","o","n">>}) THEN "menu"
         ELSE "text_block"
    ELSE IF element.type = "rectangle"
    THEN IF element.width > 2 * element.height /\ element.height < 50 THEN "button"
         ELSE IF element.width > 3 * element.height /\ element.height < 40 THEN "input_field"
         ELSE IF /\ 10 * element.width > 7 * element.height
                 /\ 2 * element.width < 3 * element.height
                 /\ element.width * element.height > 10000 THEN "card"
         ELSE IF element.width * element.height > 50000 THEN "modal"
         ELSE "container"
    ELSE IF element.type \in {"arrow", "line"} THEN "connector"
    ELSE IF element.type = "ellipse"
    THEN IF 10 * element.width > 8 * element.height /\ 10 * element.width < 12 * element.height
         THEN IF element.width * element.height < 2000 THEN "radio_button" ELSE "icon"
         ELSE "unknown"
    ELSE IF element.type = "diamond" THEN "decision_point"
    ELSE "unknown"

calculateElementConfidence(element, role) ==
    Min(50
        + (IF element.text # <<>> THEN 20 ELSE 0)
        + (IF /\ element.text # <<>> /\ role = "button"
              /\ IncludesAny(element.text, {<<"b","u","t","t","o","n">>, <<"c","l","i","c","k">>}) THEN 20 ELSE 0)
        + (IF /\ element.text # <<>> /\ role = "input_field"
              /\ IncludesAny(element.text, {<<"i","n","p","u","t">>, <<"e","n","t","e","r">>}) THEN 20 ELSE 0)
        + (IF /\ role = "button"
              /\ 2 * element.width > 3 * element.height /\ element.width < 4 * element.height
              /\ element.height > 20 /\ element.height < 60 THEN 15 ELSE 0)
        + (IF element.strokeWidth > 1 THEN 5 ELSE 0)
        + (IF element.filled THEN 5 ELSE 0),
        100)

\* preprocessElements and classifyElements; center doubled
classifyElements(elems) ==
    [i \in 1..Len(elems) |->
        [id |-> elems[i].id, type |-> elems[i].type, x |-> elems[i].x, y |-> elems[i].y,
         width |-> elems[i].width, height |-> elems[i].height,
         cx2 |-> 2 * elems[i].x + elems[i].width, cy2 |-> 2 * elems[i].y + elems[i].height,
         role |-> classifyElementRole(elems[i]),
         confidence |-> calculateElementConfidence(elems[i], classifyElementRole(elems[i]))]]

shouldGroupElements(element1, element2) ==
    \/ element1.role = "text_block" /\ element2.role = "input_field"
    \/ element1.role = "icon" /\ element2.role = "button"
    \/ element1.role = "text_block" /\ element2.role = "text_block"

groupThreshold == 20

findRelatedElements(primaryElement, allElements) ==
    SelectSeq(allElements, LAMBDA element :
        /\ element.id # primaryElement.id
        /\ (element.cx2 - primaryElement.cx2) * (element.cx2 - primaryElement.cx2)
             + (element.cy2 - primaryElement.cy2) * (element.cy2 - primaryElement.cy2)
             < (2 * groupThreshold) * (2 * groupThreshold)
        /\ shouldGroupElements(primaryElement, element))

\* roles.sort((a, b) => b.confidence - a.confidence)[0].role: the first element of
\* highest confidence
inferComponentRole(elems) ==
    elems[MinOf({i \in 1..Len(elems) :
                    \A j \in 1..Len(elems) : elems[j].confidence <= elems[i].confidence})].role

\* Math.min(averageConfidence + groupBonus, 1.0) as a fraction of hundredths
calculateComponentConfidence(elems) ==
    LET total == SumLen([i \in 1..Len(elems) |-> elems[i].confidence])
        groupBonus == IF Len(elems) > 1 THEN 10 ELSE 0
    IN IF total + groupBonus * Len(elems) > 100 * Len(elems)
       THEN [num |-> 100, den |-> 1]
       ELSE [num |-> total + groupBonus * Len(elems), den |-> Len(elems)]

createSemanticComponent(elems) ==
    LET minX == MinOf({elems[i].x : i \in 1..Len(elems)})
        minY == MinOf({elems[i].y : i \in 1..Len(elems)})
        maxX == MaxOf({elems[i].x + elems[i].width : i \in 1..Len(elems)})
        maxY == MaxOf({elems[i].y + elems[i].height : i \in 1..Len(elems)})
    IN [id |-> {<<elems[i].type, elems[i].x, elems[i].y>> : i \in 1..Len(elems)},
        elementIds |-> [i \in 1..Len(elems) |-> elems[i].id],
        role |-> inferComponentRole(elems),
        relationships |-> <<>>,
        confidence |-> calculateComponentConfidence(elems),
        boundingBox |-> [x |-> minX, y |-> minY, width |-> maxX - minX, height |-> maxY - minY]]

\* the loop of groupIntoComponents from element i on
RECURSIVE GroupElementsFrom(_, _, _)
GroupElementsFrom(classified, i, processed) ==
    IF i > Len(classified) THEN <<>>
    ELSE IF classified[i].id \in processed
    THEN GroupElementsFrom(classified, i + 1, processed)
    ELSE LET allElements ==
                 <<classified[i]>> \o findRelatedElements(classified[i], classified)
         IN <<createSemanticComponent(allElements)>>
            \o GroupElementsFrom(classified, i + 1,
                  processed \cup {allElements[k].id : k \in 1..Len(allElements)})

groupIntoComponents(classified) == GroupElementsFrom(classified, 1, {})

\* comp.confidence >= options.minConfidence
ConfidenceAtLeast(confidence, minConfidence) ==
    confidence.num >= minConfidence * confidence.den

ExtInit ==
    /\ extElements \in DistinctLists(WorkerPalette, MaxWorkerElements)
    /\ extOptions \in WorkerOptionSets
    /\ extPhase = "request"
    /\ classifiedElements = <<>>
    /\ extComponents = <<>>
    /\ filteredComponents = <<>>

\* steps 1 and 2: preprocessElements, classifyElements
ClassifyElements ==
    /\ extPhase = "request"
    /\ classifiedElements' = classifyElements(extElements)
    /\ extPhase' = "classified"
    /\ UNCHANGED <<extElements, extOptions, extComponents, filteredComponents>>

\* step 3: groupIntoComponents
GroupIntoComponents ==
    /\ extPhase = "classified"
    /\ extComponents' = groupIntoComponents(classifiedElements)
    /\ extPhase' = "grouped"
    /\ UNCHANGED <<extElements, extOptions, classifiedElements, filteredComponents>>

\* step 4: analyzeRelationships (enableRelationshipAnalysis)
AnalyzeComponents ==
    /\ extPhase = "grouped"
    /\ extComponents' = analyzeRelationships(extComponents)
    /\ extPhase' = "related"
    /\ UNCHANGED <<extElements, extOptions, classifiedElements, filteredComponents>>

\* step 5: the filter by confidence, and the result
FilterComponents ==
    /\ extPhase = "related"
    /\ filteredComponents' =
           SelectSeq(extComponents,
                     LAMBDA comp : ConfidenceAtLeast(comp.confidence, extOptions.minConfidence))
    /\ extPhase' = "done"
    /\ UNCHANGED <<extElements, extOptions, classifiedElements, extComponents>>

ExtOnly == UNCHANGED <<storeVars, docVars, pipeVars, workerVars, enhVars, relVars, detVars, tokVars, boxVars, createVars>>

ExtNext ==
    \/ ClassifyElements /\ ExtOnly
    \/ GroupIntoComponents /\ ExtOnly
    \/ AnalyzeComponents /\ ExtOnly
    \/ FilterComponents /\ ExtOnly

InitExt == StoreInit /\ CreateIdle /\ BoxIdle /\ DocIdle /\ TokIdle /\ EnhIdle /\ RelIdle /\ DetIdle /\ PipeIdle /\ WorkerIdle /\ ExtInit

\* One run of extractSemanticComponents on a request
SpecExt == InitExt /\ [][ExtNext]_vars

(***************************************************************************)
(* C28  No dangling relationship targets.  In the result of the extraction *)
(* worker every relationship's targetComponentId is the id of a component  *)
(* of the returned list, also when the minConfidence filter removes        *)
(* components after the relationship analysis.                             *)
(* The filter runs after analyzeRelationships and leaves the relationships *)
(* of the kept components as they are.                                     *)
(***************************************************************************)
C28_NoDanglingTargets ==
    extPhase = "done" =>
        \A i \in 1..Len(filteredComponents) :
            \A r \in 1..Len(filteredComponents[i].relationships) :
                \E j \in 1..Len(filteredComponents) :
                    filteredComponents[j].id
                        = filteredComponents[i].relationships[r].targetComponentId

(***************************************************************************)
(* C29  Grouping is a partition.  In the components groupIntoComponents    *)
(* returns, every input element id is in the elementIds of exactly one     *)
(* component.                                                              *)
(* findRelatedElements does not look at the processed set: an element that *)
(* is already in a component is taken again by a later primary element.    *)
(***************************************************************************)
\* the components that hold the element id
HoldersOf(id) ==
    {i \in 1..Len(extComponents) :
        \E k \in 1..Len(extComponents[i].elementIds) : extComponents[i].elementIds[k] = id}

C29_GroupingPartition ==
    extPhase \in {"grouped", "related", "done"} =>
        \A e \in 1..Len(extElements) : Cardinality(HoldersOf(extElements[e].id)) = 1

(***************************************************************************)
(* C26  One pre-state snapshot per mutation.  Every successful set,        *)
(* update, delete, duplicate and clear appends exactly one snapshot whose  *)
(* data is the widget map as it was immediately before the call; a call    *)
(* that fails or returns false, and restoreSnapshot, leave the history     *)
(* unchanged.                                                              *)
(* set writes elementId and updatedAt into the metadata object it was      *)
(* given before it calls saveSnapshot; when that object is one get()       *)
(* returned, the snapshot shows the entry as already written.              *)
(***************************************************************************)
MutatingOps == {"set", "update", "delete", "duplicate", "clear"}

\* the history before the call, as it is kept when one snapshot is pushed
KeptHistory == IF Len(snapshots) = maxSnapshotHistory THEN Tail(snapshots) ELSE snapshots

\* the step appends one snapshot of the values the map held before the call
AppendsPreState ==
    /\ Len(snapshots') = Len(KeptHistory) + 1
    /\ SubSeq(snapshots', 1, Len(KeptHistory)) = KeptHistory
    /\ DeepMap(heap', cfgHeap', snapshots'[Len(snapshots')].data)
          = DeepMap(heap, cfgHeap, widgets)

C26_PreStateSnapshot ==
    [][(now' = now) =>
          /\ (lastOp'.op \in MutatingOps /\ lastOp'.ret \in {"ok", "true"})
                => AppendsPreState
          /\ (lastOp'.op \in MutatingOps /\ lastOp'.ret \in {"false", "throws"})
                => snapshots' = snapshots
          /\ (lastOp'.op = "restoreSnapshot") => snapshots' = snapshots]_vars

(***************************************************************************)
(* C27  A failed restore changes nothing.  Whenever restoreSnapshot(id)    *)
(* returns false, for an unknown or evicted id or for a snapshot that      *)
(* cannot be applied (one loaded by deserialize, whose data is no longer a *)
(* map), the widget map is what it was before the call.                    *)
(* restoreSnapshot clears the map before it walks snapshot.data; when the  *)
(* walk throws, the map stays empty.                                       *)
(***************************************************************************)
C27_FailedRestoreKeepsMap ==
    [][(now' = now /\ lastOp'.op = "restoreSnapshot" /\ lastOp'.ret = "false")
          => DeepMap(heap', cfgHeap', widgets') = DeepMap(heap, cfgHeap, widgets)]_vars

(***************************************************************************)
(* createFromPattern and storage.set                                       *)
(*                                                                         *)
(* A created config is kept by the fields validateMetadata reads: whether  *)
(* both coordinates of center are non-zero, the zoom, and the url as "",   *)
(* "https://v" (new URL accepts it) or "bad" (new URL throws).             *)
(***************************************************************************)
DigitChars == <<"0", "1", "2", "3", "4", "5", "6", "7", "8", "9">>

IsDigit(c) == \E d \in 1..10 : DigitChars[d] = c

DigitValue(c) == (CHOOSE d \in 1..10 : DigitChars[d] = c) - 1

\* (\d+) from position j: the position after the last digit
RECURSIVE DigitsEnd(_, _)
DigitsEnd(str, j) == IF j <= Len(str) /\ IsDigit(str[j]) THEN DigitsEnd(str, j + 1) ELSE j

\* parseInt(str.substring(a - 1, b), 10) for a run of digits
RECURSIVE ParseInt(_, _, _)
ParseInt(str, a, b) ==
    IF b < a THEN 0 ELSE 10 * ParseInt(str, a, b - 1) + DigitValue(str[b])

\* -?\d+\.?\d* from position j: the position after it, 0 without a match
NumberEnd(str, j) ==
    LET d == IF j <= Len(str) /\ str[j] = "-" THEN j + 1 ELSE j
        e == DigitsEnd(str, d)
    IN IF e = d THEN 0
       ELSE IF e <= Len(str) /\ str[e] = "." THEN DigitsEnd(str, e + 1) ELSE e

\* parseFloat of the number from position j is not zero
NonZeroNumber(str, j) ==
    \E n \in j..(NumberEnd(str, j) - 1) : IsDigit(str[n]) /\ str[n] # "0"

\* [,\s]+ from position j: the position after it
RECURSIVE SkipCommaSpace(_, _)
SkipCommaSpace(str, j) ==
    IF j <= Len(str) /\ (str[j] = "," \/ IsSpace(str[j]))
    THEN SkipCommaSpace(str, j + 1) ELSE j

\* the longest of the words at position i, <<>> if none is there
LongestAt(str, i, words) ==
    IF \E w \in words : MatchAtI(str, i, w)
    THEN CHOOSE w \in words :
            /\ MatchAtI(str, i, w)
            /\ \A v \in words : MatchAtI(str, i, v) => Len(v) <= Len(w)
    ELSE <<>>

\* coordPattern matched with the first key at position i: the positions of
\* the two numbers, <<0, 0>> without a match.  The keys are tried in the
\* order of the pattern, lat before latitude, lng|lon before longitude.
CoordAt(str, i) ==
    LET tryKey(k1) ==
            IF ~MatchAtI(str, i, k1) THEN <<0, 0>>
            ELSE LET n1 == SkipColonSpace(str, i + Len(k1))
                     e1 == NumberEnd(str, n1)
                     s2 == IF e1 = 0 THEN 0 ELSE SkipCommaSpace(str, e1)
                     k2 == IF e1 = 0 \/ s2 = e1 THEN <<>>
                           ELSE LongestAt(str, s2, {<<"l","n","g">>, <<"l","o","n">>, <<"l","o","n","g","i","t","u","d","e">>})
                     n2 == IF k2 = <<>> THEN 0 ELSE SkipColonSpace(str, s2 + Len(k2))
                 IN IF k2 # <<>> /\ NumberEnd(str, n2) # 0 THEN <<n1, n2>> ELSE <<0, 0>>
    IN IF tryKey(<<"l","a","t">>) # <<0, 0>> THEN tryKey(<<"l","a","t">>) ELSE tryKey(<<"l","a","t","i","t","u","d","e">>)

\* extractMapConfig: center and zoom of the extracted config; center is
\* "default" and hasZoom is FALSE where the text gives none
extractMapConfig(text) ==
    LET coordStarts == {i \in 1..Len(text) : CoordAt(text, i) # <<0, 0>>}
        zoomStarts == {i \in 1..Len(text) :
                          /\ MatchAtI(text, i, <<"z","o","o","m">>)
                          /\ LET d == SkipColonSpace(text, i + 4)
                             IN DigitsEnd(text, d) > d}
    IN [center |-> IF coordStarts = {} THEN "default"
                   ELSE LET at == CoordAt(text, MinOf(coordStarts))
                        IN IF NonZeroNumber(text, at[1]) /\ NonZeroNumber(text, at[2])
                           THEN "nonzero" ELSE "zero",
        hasZoom |-> zoomStarts # {},
        zoom |-> IF zoomStarts = {} THEN 0
                 ELSE LET d == SkipColonSpace(text, MinOf(zoomStarts) + 4)
                      IN ParseInt(text, d, DigitsEnd(text, d) - 1)]

VideoHosts == {<<"y","o","u","t","u","b","e",".","c","o","m","/","w","a","t","c","h","?","v","=">>, <<"y","o","u","t","u",".","b","e","/">>, <<"v","i","m","e","o",".","c","o","m","/">>}

VideoExtensions == {<<".","m","p","4">>, <<".","w","e","b","m">>, <<".","o","g","g">>, <<".","a","v","i">>, <<".","m","o","v">>}

\* urlPattern of extractVideoConfig matches from position i
VideoUrlAt(str, i) ==
    LET scheme == LongestAt(str, i, {<<"h","t","t","p",":","/","/">>, <<"h","t","t","p","s",":","/","/">>})
        www == i + Len(scheme)
        host == IF MatchAtI(str, www, <<"w","w","w",".">>) THEN www + 4 ELSE www
    IN \/ \E h \in VideoHosts : MatchAtI(str, host, h)
       \/ \E j \in i..Len(str), x \in VideoExtensions : MatchAtI(str, j, x)

\* extractVideoConfig: the url of the extracted config, by what new URL makes
\* of urlMatch[0]: it needs the scheme
extractVideoUrl(text) ==
    LET starts == {i \in 1..Len(text) : VideoUrlAt(text, i)}
    IN IF starts = {} THEN "default"
       ELSE IF LongestAt(text, MinOf(starts), {<<"h","t","t","p",":","/","/">>, <<"h","t","t","p","s",":","/","/">>}) # <<>>
       THEN "https://v" ELSE "bad"

\* text.replace(/\[[^\]]*\]/g, '')
RECURSIVE StripBrackets(_)
StripBrackets(str) ==
    IF str = <<>> THEN <<>>
    ELSE IF Head(str) = "[" /\ \E c \in 2..Len(str) : str[c] = "]"
    THEN StripBrackets(SubSeq(str, MinOf({c \in 2..Len(str) : str[c] = "]"}) + 1, Len(str)))
    ELSE <<Head(str)>> \o StripBrackets(Tail(str))

extractTitleFromText(text) ==
    LET cleaned == Trim(StripBrackets(text))
    IN IF cleaned = <<>> THEN <<"W","i","d","g","e","t">> ELSE SubSeq(cleaned, 1, Min(50, Len(cleaned)))

\* defaultConfig of WIDGET_PATTERNS: center San Francisco, zoom 10, url ''
DefaultZoom == 10

NoMetadata == [type |-> "null"]

\* createFromPattern(text, elementId, bounds) at time t
createFromPattern(text, elementId, t) ==
    LET detection == factoryDetectWidgetFromText(text)
        map == extractMapConfig(text)
        video == extractVideoUrl(text)
    IN IF ~detection.isWidget THEN NoMetadata
       ELSE Literal(detection.type, elementId, extractTitleFromText(text), t,
                    [center |-> IF detection.type = "map" THEN map.center # "zero" ELSE FALSE,
                     zoom |-> IF detection.type = "map"
                              THEN (IF map.hasZoom THEN map.zoom ELSE DefaultZoom)
                              ELSE 0,
                     url |-> IF detection.type = "video" /\ video # "default" THEN video ELSE "",
                     data |-> "none"])

CreateTexts ==
    {<<"[","V","I","D","E","O","]"," ","1">>, <<"[","M","A","P","]"," ","0">>, <<"[","M","A","P","]"," ","z","o","o","m",":"," ","0">>, <<"[","M","A","P","]"," ","l","a","t",":"," ","0",","," ","l","n","g",":"," ","5">>,
     <<"[","V","I","D","E","O","]"," ","h","t","t","p","s",":","/","/","y","o","u","t","u",".","b","e","/","x">>, <<"[","C","H","A","R","T","]"," ","1">>, <<"h","e","l","l","o">>}

MaxTestWidgets == 2

\* widget.id of the i-th test widget
TestWidgetId(i) == IF i % 2 = 1 THEN "a" ELSE "b"

RECURSIVE TextLists(_)
TextLists(n) ==
    IF n = 0 THEN {<<>>}
    ELSE {Append(l, t) : l \in TextLists(n - 1), t \in CreateTexts}

CreateInit ==
    /\ testWidgets \in TextLists(MaxTestWidgets)
    /\ testIndex = 0
    /\ createPhase = "create"
    /\ createdMetadata = NoMetadata

\* const metadata = widgetFactory.createFromPattern(widget.text, widget.id, bounds)
CreateFromPattern ==
    /\ createPhase = "create"
    /\ testIndex < Len(testWidgets)
    /\ createdMetadata' =
          createFromPattern(testWidgets[testIndex + 1], TestWidgetId(testIndex + 1), now)
    /\ createPhase' = "store"
    /\ UNCHANGED <<testWidgets, testIndex, storeVars>>

\* if (metadata) { storage.set(widget.id, metadata) }
StoreCreated ==
    /\ createPhase = "store"
    /\ IF createdMetadata = NoMetadata
       THEN /\ lastOp' = [op |-> "createFromPattern", key |-> NoKey, ret |-> "null"]
            /\ UNCHANGED <<heap, cfgHeap, widgets, snapshots, currentSnapshotId, now, savedState>>
       ELSE SetLiteral(TestWidgetId(testIndex + 1), createdMetadata)
    /\ dupWatch' = NoWatch
    /\ testIndex' = testIndex + 1
    /\ createPhase' = "create"
    /\ UNCHANGED <<testWidgets, createdMetadata>>

CreateOnly == UNCHANGED <<docVars, pipeVars, workerVars, enhVars, relVars, detVars, tokVars, boxVars, extVars>>

CreateNext ==
    \/ CreateFromPattern /\ CreateOnly
    \/ StoreCreated /\ CreateOnly

InitCreate == StoreInit /\ ExtIdle /\ BoxIdle /\ DocIdle /\ TokIdle /\ EnhIdle /\ RelIdle /\ DetIdle /\ PipeIdle /\ WorkerIdle /\ CreateInit

\* Detected widgets are created and stored, as the widget tests do
SpecCreate == InitCreate /\ [][CreateNext]_vars

(***************************************************************************)
(* C30  Detected widgets are storable.  For every text on which            *)
(* createFromPattern returns metadata, '[VIDEO] 1' and '[MAP] 0' among     *)
(* them, storage.set(elementId, metadata) accepts the metadata without     *)
(* raising and has(elementId) is true afterwards.                          *)
(* The default video config has url '', which validateVideoMetadata        *)
(* rejects.                                                                *)
(***************************************************************************)
C30_DetectedStorable ==
    (createPhase = "create" /\ testIndex >= 1 /\ createdMetadata # NoMetadata)
        => (lastOp.ret = "ok" /\ TestWidgetId(testIndex) \in DOMAIN widgets)

====
